---- MODULE Spec2Model ----
(***************************************************************************)
(* Model of the Lox tree-walking evaluator (src/src/lox/evaluator.rs).    *)
(*                                                                         *)
(* The state is the Evaluator object: its environment (a chain of scopes)  *)
(* and its output buffer, together with the statement list handed to the   *)
(* last evaluate_statements call and the EvalResult it returned.           *)
(* execute / evaluate / evaluate_call / execute_block are recursive        *)
(* operators that thread (environment, output) exactly as the Rust code    *)
(* threads `self`.                                                         *)
(***************************************************************************)
EXTENDS Integers, Sequences, FiniteSets, TLC

VARIABLES environment, output, program, result, runs,
          scanner, scanned, scans, parser, parsed,
          written, slot, ast, compiler, compiled, vm, ip, panic, status

vars ==
    <<environment, output, program, result, runs, scanner, scanned, scans,
      parser, parsed, written, slot, ast, compiler, compiled, vm, ip, panic,
      status>>
evaluator_vars == <<environment, output, program, result, runs>>
scanner_vars == <<scanner, scanned, scans>>
parser_vars == <<parser, parsed>>
chunk_vars == <<written, slot>>
compiler_vars == <<ast, compiler, compiled>>
vm_vars == <<vm, ip, panic, status>>
bytecode_vars == <<chunk_vars, compiler_vars, vm_vars>>
lox_vars == <<evaluator_vars, scanner_vars, parser_vars>>

(***************************************************************************)
(* Bounds.                                                                 *)
(***************************************************************************)
\* number of evaluate_statements calls made on one persistent Evaluator
MaxRuns == 2
\* number of scan_tokens calls made on one Scanner
MaxScans == 2
\* length of the sources handed to Scanner::new
MaxSourceLen == 3
\* number of binary operators in one parsed expression
MaxOperators == 3
\* length of what follows the opening `/*` in the comment sources
MaxCommentLen == 7
\* code bytes written into one chunk by the chunk writer
MaxCode == 5
\* constants added to one chunk by the chunk writer
MaxConstants == 1
\* instructions written into a chunk that is handed to the VM
MaxOps == 3
\* iterations of one `while` loop that are followed before the loop is
\* reported as not finished
MaxIterations == 4

(***************************************************************************)
(* Identifiers that occur in the programs below.                           *)
(***************************************************************************)
Names == {"a", "x", "i", "n", "f", "g", "clock"}

(***************************************************************************)
(* Runtime values (enum Value).  Every variant has its own payload field,  *)
(* so values of different variants are never compared payload to payload.  *)
(***************************************************************************)
Nil == [t |-> "Nil"]
Boolean(b) == [t |-> "Boolean", b |-> b]
Number(n) == [t |-> "Number", n |-> n]
String(s) == [t |-> "String", s |-> s]
Return(v) == [t |-> "Return", inner |-> v]
Function(name, params, body) ==
    [t |-> "Function", name |-> name, params |-> params, body |-> body]
NativeFunction == [t |-> "NativeFunction", native |-> "clock"]

\* a HashMap slot without an entry
Unbound == [t |-> "Unbound"]

\* impl Display for Value
to_string(value) ==
    CASE value.t = "Nil" -> "Nil"
      [] value.t = "Boolean" -> IF value.b THEN "true" ELSE "false"
      [] value.t = "Number" -> ToString(value.n)
      [] value.t = "String" -> value.s
      [] value.t = "NativeFunction" -> "<native fn>"
      [] OTHER -> "Unsupported value"

(***************************************************************************)
(* EvalResult and Result<Value, String>.                                   *)
(***************************************************************************)
EvalReturn(v) == [k |-> "Return", value |-> v]
EvalError(e) == [k |-> "Error", err |-> e]
Ok(v) == [k |-> "Ok", value |-> v]
Err(e) == [k |-> "Err", err |-> e]
\* a loop that is still running after MaxIterations iterations
Unfinished == [k |-> "Unfinished"]

\* what an operation leaves behind: the evaluator's fields and its result
R(env, out, res) == [environment |-> env, output |-> out, result |-> res]

(***************************************************************************)
(* Environment.  `enclosing: Option<Box<Environment>>` makes an            *)
(* environment a linear chain that owns its parents, so it is a non-empty  *)
(* sequence of `values` maps, innermost first: env[1] is self.values and   *)
(* Tail(env) is self.enclosing.                                            *)
(***************************************************************************)
EmptyValues == [name \in Names |-> Unbound]

EnvironmentNew == <<EmptyValues>>

with_enclosing(enclosing) == <<EmptyValues>> \o enclosing

contains_key(values, name) == values[name] # Unbound

define(env, name, value) == [env EXCEPT ![1][name] = value]

RECURSIVE get(_, _)
get(env, name) ==
    IF contains_key(env[1], name) THEN env[1][name]
    ELSE IF Len(env) > 1 THEN get(Tail(env), name)
    ELSE Unbound

RECURSIVE assign(_, _, _)

\* assign, once the enclosing environment has been tried: the value was
\* stored in the current scope before
assign_here(env, name, value, up) ==
    [env |-> <<[env[1] EXCEPT ![name] = value]>> \o up.env, ok |-> up.ok]

assign(env, name, value) ==
    IF contains_key(env[1], name)
    THEN [env |-> [env EXCEPT ![1][name] = value], ok |-> TRUE]
    ELSE IF Len(env) > 1
    THEN assign_here(env, name, value, assign(Tail(env), name, value))
    ELSE [env |-> env, ok |-> FALSE]

assign_error(name) == "Variable '" \o name \o "' not defined."

\* extend(): every entry of `from` overwrites the entry of `into`
extend(into, from) ==
    [name \in Names |->
        IF contains_key(from, name) THEN from[name] ELSE into[name]]

merge_to_parent(env) ==
    IF Len(env) > 1
    THEN <<env[1], extend(env[2], env[1])>> \o Tail(Tail(env))
    ELSE env

\* the names a lookup from this environment resolves
RECURSIVE visible(_)
visible(env) ==
    {name \in Names : contains_key(env[1], name)}
        \cup (IF Len(env) > 1 THEN visible(Tail(env)) ELSE {})

(***************************************************************************)
(* AST (src/src/lox/ast.rs).  Tokens are kept as their lexeme (names) or   *)
(* their token type (operators).                                           *)
(***************************************************************************)
None == [t |-> "None"]

Literal(value) == [t |-> "Literal", value |-> value]
Variable(name) == [t |-> "Variable", name |-> name]
Grouping(e) == [t |-> "Grouping", expression |-> e]
Unary(op, e) == [t |-> "Unary", operator |-> op, operand |-> e]
Binary(l, op, r) == [t |-> "Binary", left |-> l, operator |-> op, right |-> r]
Assign(name, e) == [t |-> "Assign", name |-> name, value |-> e]
Call(callee, args) == [t |-> "Call", callee |-> callee, arguments |-> args]

StmtExpression(e) == [t |-> "Expression", expr |-> e]
StmtPrint(e) == [t |-> "Print", expr |-> e]
StmtVar(name, init) == [t |-> "Var", name |-> name, initializer |-> init]
StmtBlock(stmts) == [t |-> "Block", statements |-> stmts]
StmtWhile(c, body) == [t |-> "While", condition |-> c, body |-> body]
StmtIf(c, th, el) ==
    [t |-> "If", condition |-> c, then_branch |-> th, else_branch |-> el]
StmtFor(init, c, inc, body) ==
    [t |-> "For", initializer |-> init, condition |-> c, increment |-> inc,
     body |-> body]
StmtFunction(name, params, body) ==
    [t |-> "Function", name |-> name, params |-> params, body |-> body]
StmtReturn(e) == [t |-> "Return", value |-> e]
StmtCall(callee, args) ==
    [t |-> "Call", callee |-> callee, arguments |-> args]
StmtAssign(name, e) == [t |-> "Assign", name |-> name, value |-> e]

(***************************************************************************)
(* Evaluator (impl Evaluator).  Every operator takes the evaluator's       *)
(* fields (environment, output) and returns R(environment, output, result).*)
(***************************************************************************)
literal_to_value(literal) ==
    IF literal.t \in {"Boolean", "Number", "String", "Nil"} THEN literal
    ELSE Nil

is_truthy(value) ==
    CASE value.t = "Boolean" -> value.b
      [] value.t = "Nil" -> FALSE
      [] OTHER -> TRUE

BothNumbers(l, r) == l.t = "Number" /\ r.t = "Number"

\* Expr::Binary, the match on operator.token_type.  Numbers are integers
\* here; the programs below divide only by zero or by a divisor of the
\* dividend, where f64 division and \div agree.
binary_op(op, l, r) ==
    CASE op = "Plus" ->
            IF BothNumbers(l, r) THEN Ok(Number(l.n + r.n))
            ELSE IF l.t = "String" /\ r.t = "String" THEN Ok(String(l.s \o r.s))
            ELSE Err("Operands must be two numbers or two strings.")
      [] op = "Minus" ->
            IF BothNumbers(l, r) THEN Ok(Number(l.n - r.n))
            ELSE Err("Operands must be numbers.")
      [] op = "Star" ->
            IF BothNumbers(l, r) THEN Ok(Number(l.n * r.n))
            ELSE Err("Operands must be numbers.")
      [] op = "Slash" ->
            IF BothNumbers(l, r)
            THEN IF r.n = 0 THEN Err("Division by zero.")
                 ELSE Ok(Number(l.n \div r.n))
            ELSE Err("Operands must be numbers.")
      [] op = "Less" ->
            IF BothNumbers(l, r) THEN Ok(Boolean(l.n < r.n))
            ELSE Err("Operands must be numbers.")
      [] op = "LessEqual" ->
            IF BothNumbers(l, r) THEN Ok(Boolean(l.n <= r.n))
            ELSE Err("Operands must be numbers.")
      [] op = "Greater" ->
            IF BothNumbers(l, r) THEN Ok(Boolean(l.n > r.n))
            ELSE Err("Operands must be numbers.")
      [] op = "GreaterEqual" ->
            IF BothNumbers(l, r) THEN Ok(Boolean(l.n >= r.n))
            ELSE Err("Operands must be numbers.")
      [] OTHER -> Err("Invalid binary operator.")

unary_op(op, right) ==
    CASE op = "Minus" ->
            IF right.t = "Number" THEN Ok(Number(0 - right.n))
            ELSE Err("Operand must be a number.")
      [] op = "Bang" -> Ok(Boolean(~is_truthy(right)))
      [] OTHER -> Err("Invalid unary operator.")

ConditionError == "Condition must evaluate to a boolean."

\* the condition arm taken if truthiness were applied to the condition
IsTrueByTruthiness(res) == res.k = "Ok" /\ is_truthy(res.value)

\* the pattern Ok(Value::Boolean(true)) of the condition matches
IsTrue(res) == res.k = "Ok" /\ res.value = Boolean(TRUE)
IsFalse(res) == res.k = "Ok" /\ res.value = Boolean(FALSE)

\* EvalResult from Result<Value, String>
ToEvalResult(res) ==
    CASE res.k = "Ok" -> EvalReturn(res.value)
      [] res.k = "Err" -> EvalError(res.err)
      [] OTHER -> res

RECURSIVE evaluate(_, _, _)
RECURSIVE evaluate_arguments(_, _, _, _)
RECURSIVE execute(_, _, _)
RECURSIVE block_loop(_, _, _, _, _)
RECURSIVE while_loop(_, _, _, _, _)
RECURSIVE for_loop(_, _, _, _, _, _)
RECURSIVE evaluate_statements(_, _, _, _)

\* execute_block, the match on the first statement's EvalResult: both arms
\* leave the loop, and previous_env (env) is put back
execute_block_match(env, first) ==
    CASE first.result.k = "Return" ->
            R(env, first.output, Ok(first.result.value))
      [] first.result.k = "Error" ->
            R(env, first.output, Err(first.result.err))
      [] OTHER -> R(env, first.output, first.result)

\* fn execute_block(&mut self, statements, new_env)
execute_block(env, out, statements, new_env) ==
    IF statements = <<>> THEN R(env, out, Ok(Nil))
    ELSE execute_block_match(env, execute(new_env, out, Head(statements)))

RECURSIVE define_params(_, _, _)
define_params(env, params, arguments) ==
    IF params = <<>> \/ arguments = <<>> THEN env
    ELSE define_params(define(env, Head(params), Head(arguments)),
                       Tail(params), Tail(arguments))

arity_error(expected, got) ==
    "Expected " \o ToString(expected) \o " arguments but got "
        \o ToString(got) \o "."

\* a match that hands on what execute_block returned as it is
call_result_keeps(done) == done

\* evaluate_call, the match on what execute_block returned
call_result(done) ==
    IF done.result.k = "Ok" /\ done.result.value.t = "Return"
    THEN [done EXCEPT !.result = Ok(done.result.value.inner)]
    ELSE done

\* fn evaluate_call(&mut self, function, arguments)
evaluate_call(env, out, function, arguments) ==
    IF function.t = "Function"
    THEN IF Len(function.params) # Len(arguments)
         THEN R(env, out,
                Err(arity_error(Len(function.params), Len(arguments))))
         ELSE call_result(
                execute_block(env, out, function.body,
                    define_params(with_enclosing(env), function.params,
                                  arguments)))
    ELSE R(env, out, Err("Can only call functions."))

\* Expr::Unary, once the operand is evaluated
unary_of(expr, right) ==
    IF right.result.k # "Ok" THEN right
    ELSE [right EXCEPT
            !.result = unary_op(expr.operator, right.result.value)]

\* Expr::Binary, once both operands are evaluated
binary_of(expr, left, right) ==
    IF right.result.k # "Ok" THEN right
    ELSE [right EXCEPT
            !.result = binary_op(expr.operator, left.result.value,
                                 right.result.value)]

\* Expr::Binary, once the left operand is evaluated
binary_right(expr, left) ==
    IF left.result.k # "Ok" THEN left
    ELSE binary_of(expr, left,
                   evaluate(left.environment, left.output, expr.right))

\* Expr::Variable
variable_of(env, out, name, value) ==
    IF value = Unbound
    THEN R(env, out, Err("Undefined variable '" \o name \o "'."))
    ELSE R(env, out, Ok(value))

\* Expr::Assign, once the value is evaluated: the Err of assign is printed
\* and dropped
assign_of(expr, val) ==
    IF val.result.k # "Ok" THEN val
    ELSE R(assign(val.environment, expr.name, val.result.value).env,
           val.output, Ok(val.result.value))

\* Expr::Call, once the arguments are evaluated
call_with(function, args) ==
    IF args.result.k # "Ok" THEN args
    ELSE evaluate_call(args.environment, args.output, function.result.value,
                       args.result.value)

\* Expr::Call, once the callee is evaluated
call_of(expr, function) ==
    IF function.result.k # "Ok" THEN function
    ELSE call_with(function,
                   evaluate_arguments(function.environment, function.output,
                                      expr.arguments, <<>>))

\* fn evaluate(&mut self, expr)
evaluate(env, out, expr) ==
    CASE expr.t = "Literal" -> R(env, out, Ok(literal_to_value(expr.value)))
      [] expr.t = "Unary" -> unary_of(expr, evaluate(env, out, expr.operand))
      [] expr.t = "Binary" ->
            binary_right(expr, evaluate(env, out, expr.left))
      [] expr.t = "Variable" ->
            variable_of(env, out, expr.name, get(env, expr.name))
      [] expr.t = "Grouping" -> evaluate(env, out, expr.expression)
      [] expr.t = "Assign" -> assign_of(expr, evaluate(env, out, expr.value))
      [] expr.t = "Call" -> call_of(expr, evaluate(env, out, expr.callee))
      [] OTHER -> R(env, out, Err("Unsupported expression."))

\* arguments.iter().map(|arg| self.evaluate(arg)).collect(), after one
\* argument: the first Err ends it
arguments_next(arguments, values, arg) ==
    IF arg.result.k # "Ok" THEN arg
    ELSE evaluate_arguments(arg.environment, arg.output, Tail(arguments),
                            Append(values, arg.result.value))

evaluate_arguments(env, out, arguments, values) ==
    IF arguments = <<>> THEN R(env, out, Ok(values))
    ELSE arguments_next(arguments, values,
                        evaluate(env, out, Head(arguments)))

\* Stmt::Block at the end of its statements: the child is merged into its
\* parent and the parent's values are copied into previous_env
block_exit(env, out, previous_env, last_result) ==
    R([previous_env EXCEPT
         ![1] = extend(previous_env[1], merge_to_parent(env)[2])],
      out, last_result)

\* Stmt::Block after one statement: an Error restores previous_env and
\* returns, anything else is kept as last_result
block_next(statements, previous_env, done) ==
    IF done.result.k # "Return"
    THEN R(previous_env, done.output, done.result)
    ELSE block_loop(done.environment, done.output, Tail(statements),
                    previous_env, done.result)

\* the `for stmt in statements` loop of Stmt::Block
block_loop(env, out, statements, previous_env, last_result) ==
    IF statements = <<>>
    THEN block_exit(env, out, previous_env, last_result)
    ELSE block_next(statements, previous_env,
                    execute(env, out, Head(statements)))

\* Stmt::While after the body: a Return from the body takes `continue`
while_body(condition, body, iteration, done) ==
    IF done.result.k # "Return" THEN done
    ELSE while_loop(done.environment, done.output, condition, body,
                    iteration + 1)

\* Stmt::While, the match on the evaluated condition
while_match(condition, body, iteration, cond) ==
    CASE IsTrue(cond.result) ->
            while_body(condition, body, iteration,
                       execute(cond.environment, cond.output, body))
      [] IsFalse(cond.result) ->
            R(cond.environment, cond.output, EvalReturn(Nil))
      [] cond.result.k = "Err" ->
            R(cond.environment, cond.output, EvalError(cond.result.err))
      [] cond.result.k = "Ok" ->
            R(cond.environment, cond.output, EvalError(ConditionError))
      [] OTHER -> cond

\* the `loop` of Stmt::While; iteration counts the passes made so far
while_loop(env, out, condition, body, iteration) ==
    IF iteration >= MaxIterations THEN R(env, out, Unfinished)
    ELSE while_match(condition, body, iteration,
                     evaluate(env, out, condition))

\* Stmt::For after the increment
for_increment(condition, increment, body, iteration, inc) ==
    IF inc.result.k # "Ok" THEN [inc EXCEPT !.result = ToEvalResult(@)]
    ELSE for_loop(inc.environment, inc.output, condition, increment, body,
                  iteration + 1)

\* Stmt::For after the body
for_body(condition, increment, body, iteration, done) ==
    IF done.result.k # "Return" THEN done
    ELSE IF increment = None
    THEN for_loop(done.environment, done.output, condition, increment, body,
                  iteration + 1)
    ELSE for_increment(condition, increment, body, iteration,
                       evaluate(done.environment, done.output, increment))

\* Stmt::For, `while let Ok(Value::Boolean(true)) = evaluate(condition)`
for_match(condition, increment, body, iteration, cond) ==
    IF cond.result.k = "Unfinished" THEN cond
    ELSE IF ~IsTrue(cond.result)
    THEN R(cond.environment, cond.output, EvalReturn(Nil))
    ELSE for_body(condition, increment, body, iteration,
                  execute(cond.environment, cond.output, body))

for_loop(env, out, condition, increment, body, iteration) ==
    IF iteration >= MaxIterations THEN R(env, out, Unfinished)
    ELSE for_match(condition, increment, body, iteration,
                   evaluate(env, out, condition))

\* Stmt::For after the initializer
for_start(stmt, init) ==
    IF init.result.k # "Return" THEN init
    ELSE for_loop(init.environment, init.output,
                  IF stmt.condition = None THEN Literal(Boolean(TRUE))
                  ELSE stmt.condition,
                  stmt.increment, stmt.body, 0)

\* Stmt::Expression: Ok and Err alike end in Return(Nil)
expression_of(value) ==
    IF value.result.k = "Unfinished" THEN value
    ELSE [value EXCEPT !.result = EvalReturn(Nil)]

\* Stmt::Print
print_of(value) ==
    IF value.result.k = "Ok"
    THEN R(value.environment,
           Append(value.output, to_string(value.result.value)),
           EvalReturn(Nil))
    ELSE [value EXCEPT !.result = ToEvalResult(@)]

\* Stmt::Var with an initializer
var_of(stmt, value) ==
    IF value.result.k = "Ok"
    THEN R(define(value.environment, stmt.name, value.result.value),
           value.output, EvalReturn(Nil))
    ELSE [value EXCEPT !.result = ToEvalResult(@)]

\* Stmt::If, the match on the evaluated condition
if_match(stmt, cond) ==
    CASE IsTrue(cond.result) ->
            execute(cond.environment, cond.output, stmt.then_branch)
      [] IsFalse(cond.result) ->
            IF stmt.else_branch # None
            THEN execute(cond.environment, cond.output, stmt.else_branch)
            ELSE R(cond.environment, cond.output, EvalReturn(Nil))
      [] cond.result.k = "Unfinished" -> cond
      [] OTHER -> \* any other value, and any Err
            R(cond.environment, cond.output, EvalError(ConditionError))

\* Stmt::Return with a value
return_of(value) ==
    IF value.result.k = "Ok"
    THEN [value EXCEPT !.result = EvalReturn(Return(@.value))]
    ELSE [value EXCEPT !.result = ToEvalResult(@)]

\* Stmt::Assign, the match on what Environment::assign returned
assign_match(stmt, val, done) ==
    R(done.env, val.output,
      IF done.ok THEN EvalReturn(Nil)
      ELSE EvalError(assign_error(stmt.name)))

\* Stmt::Assign, once the value is evaluated
assign_statement_of(stmt, val) ==
    IF val.result.k # "Ok" THEN [val EXCEPT !.result = ToEvalResult(@)]
    ELSE assign_match(stmt, val,
                      assign(val.environment, stmt.name, val.result.value))

\* Stmt::Call: Ok(value) becomes Return(value), Err(err) becomes Error(err)
call_statement_of(done) == [done EXCEPT !.result = ToEvalResult(@)]

\* fn execute(&mut self, stmt)
execute(env, out, stmt) ==
    CASE stmt.t = "Expression" ->
            expression_of(evaluate(env, out, stmt.expr))
      [] stmt.t = "Print" -> print_of(evaluate(env, out, stmt.expr))
      [] stmt.t = "Var" ->
            IF stmt.initializer = None
            THEN R(define(env, stmt.name, Nil), out, EvalReturn(Nil))
            ELSE var_of(stmt, evaluate(env, out, stmt.initializer))
      [] stmt.t = "Block" ->
            block_loop(with_enclosing(env), out, stmt.statements, env,
                       EvalReturn(Nil))
      [] stmt.t = "While" ->
            while_loop(env, out, stmt.condition, stmt.body, 0)
      [] stmt.t = "If" -> if_match(stmt, evaluate(env, out, stmt.condition))
      [] stmt.t = "For" ->
            for_start(stmt,
                      IF stmt.initializer = None
                      THEN R(env, out, EvalReturn(Nil))
                      ELSE execute(env, out, stmt.initializer))
      [] stmt.t = "Call" ->
            call_statement_of(
                evaluate(env, out, Call(stmt.callee, stmt.arguments)))
      [] stmt.t = "Function" ->
            R(define(env, stmt.name,
                     Function(stmt.name, stmt.params, stmt.body)),
              out, EvalReturn(Nil))
      [] stmt.t = "Return" ->
            IF stmt.value = None
            THEN R(env, out, EvalReturn(Return(Nil)))
            ELSE return_of(evaluate(env, out, stmt.value))
      [] stmt.t = "Assign" ->
            assign_statement_of(stmt, evaluate(env, out, stmt.value))
      [] OTHER -> R(env, out, EvalError("Unsupported statement."))

\* evaluate_statements after one statement: an Error ends the run
statements_next(statements, done) ==
    IF done.result.k # "Return" THEN done
    ELSE evaluate_statements(done.environment, done.output,
                             Tail(statements), done.result.value)

\* pub fn evaluate_statements(&mut self, statements)
evaluate_statements(env, out, statements, last_value) ==
    IF statements = <<>> THEN R(env, out, EvalReturn(last_value))
    ELSE statements_next(statements, execute(env, out, Head(statements)))

\* pub fn get_output(&self)
get_output(out) == out

(***************************************************************************)
(* Programs: statement lists the parser produces, written next to their    *)
(* source text.  The parser has no Stmt::For, Stmt::Call or Stmt::Assign   *)
(* output: `x = e;` and `f();` are expression statements.                  *)
(***************************************************************************)
Num(n) == Literal(Number(n))
Str(s) == Literal(String(s))
True == Literal(Boolean(TRUE))
False == Literal(Boolean(FALSE))
CallNamed(name, args) == Call(Variable(name), args)
PrintStr(s) == StmtPrint(Str(s))
PrintVar(name) == StmtPrint(Variable(name))

\* ---- block scope --------------------------------------------------------
BlockValues == {Number(1), String("local")}

\* { var x = v; }
DeclareInBlock(v) == <<StmtBlock(<<StmtVar("x", Literal(v))>>)>>
\* { var x = v; print x; }
DeclareAndPrintInBlock(v) ==
    <<StmtBlock(<<StmtVar("x", Literal(v)), PrintVar("x")>>)>>
\* { { var x = v; } }
DeclareInNestedBlock(v) ==
    <<StmtBlock(<<StmtBlock(<<StmtVar("x", Literal(v))>>)>>)>>
\* { var x = v; } print x;
DeclareThenUse(v) == DeclareInBlock(v) \o <<PrintVar("x")>>

BlockOnlyPrograms ==
    {DeclareInBlock(v) : v \in BlockValues}
        \cup {DeclareAndPrintInBlock(v) : v \in BlockValues}
        \cup {DeclareInNestedBlock(v) : v \in BlockValues}
BlockThenUsePrograms == {DeclareThenUse(v) : v \in BlockValues}

\* var a = outer; { var a = inner; print a; } print a;
Shadow(outer, inner) ==
    <<StmtVar("a", Literal(outer)),
      StmtBlock(<<StmtVar("a", Literal(inner)), PrintVar("a")>>),
      PrintVar("a")>>
ShadowValues == {String("global"), String("local"), Number(1)}
ShadowPairs ==
    {pair \in ShadowValues \X ShadowValues : pair[1] # pair[2]}
ShadowPrograms == {Shadow(pair[1], pair[2]) : pair \in ShadowPairs}

\* ---- function bodies ------------------------------------------------------
Marks == <<"one", "two">>
MarkCounts == 0 .. Len(Marks)

RECURSIVE PrintAll(_)
PrintAll(strings) ==
    IF strings = <<>> THEN <<>>
    ELSE <<PrintStr(Head(strings))>> \o PrintAll(Tail(strings))

\* print "one"; ... (k of them) [ return 9; print "after"; ]
FunBody(k, returns) ==
    PrintAll(SubSeq(Marks, 1, k))
        \o (IF returns THEN <<StmtReturn(Num(9)), PrintStr("after")>>
            ELSE <<>>)
\* fun f() { body }  print f();
PrintCallOf(body) ==
    <<StmtFunction("f", <<>>, body), StmtPrint(CallNamed("f", <<>>))>>
FunBodyPrograms ==
    {PrintCallOf(FunBody(k, returns)) : k \in MarkCounts, returns \in BOOLEAN}

\* fun f(n) { if (n <= 1) return 1; return n * f(n - 1); }  print f(5);
Factorial ==
    <<StmtFunction("f", <<"n">>,
        <<StmtIf(Binary(Variable("n"), "LessEqual", Num(1)),
                 StmtReturn(Num(1)), None),
          StmtReturn(Binary(Variable("n"), "Star",
                            CallNamed("f", <<Binary(Variable("n"), "Minus",
                                                    Num(1))>>)))>>),
      StmtPrint(CallNamed("f", <<Num(5)>>))>>

\* fun f() { { return 1; print "after"; } }  print f();
ReturnInBlock ==
    PrintCallOf(<<StmtBlock(<<StmtReturn(Num(1)), PrintStr("after")>>)>>)
\* fun f() { { return 1; } print "later"; return 2; }  print f();
ReturnInBlockThenMore ==
    PrintCallOf(<<StmtBlock(<<StmtReturn(Num(1))>>), PrintStr("later"),
                  StmtReturn(Num(2))>>)
\* fun f() { if (true) { return 1; print "after"; } }  print f();
ReturnInIfBlock ==
    PrintCallOf(<<StmtIf(True,
                         StmtBlock(<<StmtReturn(Num(1)), PrintStr("after")>>),
                         None)>>)
\* fun f() { { { return 1; } return 2; } }  print f();
ReturnInInnerBlock ==
    PrintCallOf(<<StmtBlock(<<StmtBlock(<<StmtReturn(Num(1))>>),
                              StmtReturn(Num(2))>>)>>)
NestedReturnPrograms ==
    {ReturnInBlock, ReturnInBlockThenMore, ReturnInIfBlock,
     ReturnInInnerBlock}

\* fun f() { while (true) { return 1; } }  print f();
WhileTrueReturn ==
    PrintCallOf(<<StmtWhile(True, StmtBlock(<<StmtReturn(Num(1))>>))>>)
\* fun f() { while (true) return 1; }  print f();
WhileTrueReturnBare ==
    PrintCallOf(<<StmtWhile(True, StmtReturn(Num(1)))>>)
\* var i = 0;
\* fun f() { while (i < 2) { i = i + 1; print i; return 7; } }  print f();
WhileCountReturn ==
    <<StmtVar("i", Num(0))>>
        \o PrintCallOf(<<StmtWhile(Binary(Variable("i"), "Less", Num(2)),
              StmtBlock(<<StmtExpression(Assign("i",
                              Binary(Variable("i"), "Plus", Num(1)))),
                          PrintVar("i"),
                          StmtReturn(Num(7))>>))>>)
WhileReturnPrograms ==
    {WhileTrueReturn, WhileTrueReturnBare, WhileCountReturn}

\* ---- closures -------------------------------------------------------------
\* fun g() { return n; }  fun f(n) { return g(); }  print f(1);
CallerParameter ==
    <<StmtFunction("g", <<>>, <<StmtReturn(Variable("n"))>>),
      StmtFunction("f", <<"n">>, <<StmtReturn(CallNamed("g", <<>>))>>),
      StmtPrint(CallNamed("f", <<Num(1)>>))>>
\* fun f() { return x; }  { var x = 1; print f(); }
CallerBlockLocal ==
    <<StmtFunction("f", <<>>, <<StmtReturn(Variable("x"))>>),
      StmtBlock(<<StmtVar("x", Num(1)), StmtPrint(CallNamed("f", <<>>))>>)>>
\* var x = "global";  fun f() { return x; }
\* { var x = "block"; print f(); }
CallerShadows ==
    <<StmtVar("x", Str("global")),
      StmtFunction("f", <<>>, <<StmtReturn(Variable("x"))>>),
      StmtBlock(<<StmtVar("x", Str("block")),
                  StmtPrint(CallNamed("f", <<>>))>>)>>
\* programs in which the callee's free variable is bound only at the call site
CallerOnlyPrograms == {CallerParameter, CallerBlockLocal}
ClosurePrograms == CallerOnlyPrograms \cup {CallerShadows}

\* var x = 1;  fun f() { x = 2; }  f();  print x;
AssignGlobalInFunction ==
    <<StmtVar("x", Num(1)),
      StmtFunction("f", <<>>, <<StmtExpression(Assign("x", Num(2)))>>),
      StmtExpression(CallNamed("f", <<>>)),
      PrintVar("x")>>
\* var x = 1;  fun f() { x = 2; }  fun g() { return x; }  f();  print g();
AssignSeenByOtherFunction ==
    <<StmtVar("x", Num(1)),
      StmtFunction("f", <<>>, <<StmtExpression(Assign("x", Num(2)))>>),
      StmtFunction("g", <<>>, <<StmtReturn(Variable("x"))>>),
      StmtExpression(CallNamed("f", <<>>)),
      StmtPrint(CallNamed("g", <<>>))>>
SharedAssignPrograms == {AssignGlobalInFunction, AssignSeenByOtherFunction}

\* ---- assignment to an unbound name -----------------------------------------
\* x = 1;
AssignUnboundTop == <<StmtExpression(Assign("x", Num(1)))>>
\* { x = 1; }
AssignUnboundInBlock ==
    <<StmtBlock(<<StmtExpression(Assign("x", Num(1)))>>)>>
\* { { x = 1; } }
AssignUnboundNested ==
    <<StmtBlock(<<StmtBlock(<<StmtExpression(Assign("x", Num(1)))>>)>>)>>
AssignUnboundPrograms ==
    {AssignUnboundTop, AssignUnboundInBlock, AssignUnboundNested}

\* ---- errors in expression statements ---------------------------------------
\* expressions whose evaluation is an Err in the environment of Evaluator::new
FailingExpressions ==
    {Binary(Num(1), "Slash", Num(0)),     \* 1 / 0
     Variable("x"),                       \* x
     Unary("Minus", Str("s")),            \* -"s"
     Binary(Num(1), "Plus", Str("s")),    \* 1 + "s"
     CallNamed("x", <<>>)}                \* x()
\* e;  print "later";
FailThenPrint(e) == <<StmtExpression(e), PrintStr("later")>>
FailingStatementPrograms == {FailThenPrint(e) : e \in FailingExpressions}

\* ---- conditions that are not booleans --------------------------------------
\* var n;  fun f() { }
ConditionPrelude == <<StmtVar("n", None), StmtFunction("f", <<>>, <<>>)>>
\* 123, "s", n (nil), f (a function), clock (a native function), 1 + 2
NonBooleanConditions ==
    {Num(123), Str("s"), Variable("n"), Variable("f"), Variable("clock"),
     Binary(Num(1), "Plus", Num(2))}
\* if (c) print "then"; else print "else";
IfOn(c) == StmtIf(c, PrintStr("then"), PrintStr("else"))
\* while (c) print "body";
WhileOn(c) == StmtWhile(c, PrintStr("body"))
ConditionStatements ==
    {IfOn(c) : c \in NonBooleanConditions}
        \cup {WhileOn(c) : c \in NonBooleanConditions}
\* prelude  s
AtTopLevel(s) == ConditionPrelude \o <<s>>
\* prelude  { s }
InsideBlock(s) == ConditionPrelude \o <<StmtBlock(<<s>>)>>
\* prelude  fun g() { s }  print g();
InsideFunction(s) ==
    ConditionPrelude
        \o <<StmtFunction("g", <<>>, <<s>>), StmtPrint(CallNamed("g", <<>>))>>
NonBooleanPrograms ==
    {AtTopLevel(s) : s \in ConditionStatements}
        \cup {InsideBlock(s) : s \in ConditionStatements}
        \cup {InsideFunction(s) : s \in ConditionStatements}

\* if (true) print "then"; else print "else";   and the same on false
BooleanPrograms ==
    {<<IfOn(True)>>, <<IfOn(False)>>, <<WhileOn(False)>>}

\* Stmt::For nodes (the evaluator's own loop); in source text
\*   for (var i = 0; i < 2; i = i + 1) print i;
ForCount ==
    StmtFor(StmtVar("i", Num(0)), Binary(Variable("i"), "Less", Num(2)),
            Assign("i", Binary(Variable("i"), "Plus", Num(1))),
            PrintVar("i"))
\*   for (; 1; ) print "body";
ForOnNumber == StmtFor(None, Num(1), None, PrintStr("body"))
\*   for (; a; ) print "body";        (a is declared nowhere)
ForOnUndefined == StmtFor(None, Variable("a"), None, PrintStr("body"))
\*   for (; false; ) print "body";
ForOnFalse == StmtFor(None, False, None, PrintStr("body"))
ForStatements == {ForCount, ForOnNumber, ForOnUndefined, ForOnFalse}
ForPrograms == {<<s>> : s \in ForStatements}

\* print clock();
NativeCall == <<StmtPrint(CallNamed("clock", <<>>))>>
\* var x = 1; print x();
NumberCall == <<StmtVar("x", Num(1)), StmtPrint(CallNamed("x", <<>>))>>
CallPrograms == {NativeCall, NumberCall}

\* print 1 == 1;   print 1 != "1";   and so on over these operands
EqualityOperands == {Number(1), Number(2), String("1")}
EqualityOperators == {"EqualEqual", "BangEqual"}
PrintEquality(l, op, r) == <<StmtPrint(Binary(Literal(l), op, Literal(r)))>>
EqualityPrograms ==
    {PrintEquality(l, op, r) :
        l \in EqualityOperands, op \in EqualityOperators,
        r \in EqualityOperands}

\* ---- bindings made before an error ----------------------------------------
\* print 1 / 0;
PrintFails == StmtPrint(Binary(Num(1), "Slash", Num(0)))
\* var a = 1;  print 1 / 0;
DefineThenFail == <<StmtVar("a", Num(1)), PrintFails>>
\* var a = 1;  a = 2;  print 1 / 0;
AssignThenFail ==
    <<StmtVar("a", Num(1)), StmtExpression(Assign("a", Num(2))), PrintFails>>
\* var a = 1;  { a = 2;  print 1 / 0; }
AssignInBlockThenFail ==
    <<StmtVar("a", Num(1)),
      StmtBlock(<<StmtExpression(Assign("a", Num(2))), PrintFails>>)>>
BeforeErrorPrograms == {DefineThenFail, AssignThenFail, AssignInBlockThenFail}

\* ---- conditions that raise an error ---------------------------------------
\* if (e) print "then"; else print "else";
FailingConditionPrograms == {<<IfOn(e)>> : e \in FailingExpressions}

Programs ==
    BeforeErrorPrograms \cup FailingConditionPrograms \cup
    BlockOnlyPrograms \cup BlockThenUsePrograms \cup ShadowPrograms
        \cup FunBodyPrograms \cup {Factorial} \cup NestedReturnPrograms
        \cup WhileReturnPrograms \cup ClosurePrograms
        \cup SharedAssignPrograms \cup AssignUnboundPrograms
        \cup FailingStatementPrograms \cup NonBooleanPrograms
        \cup BooleanPrograms \cup ForPrograms \cup CallPrograms
        \cup EqualityPrograms

(***************************************************************************)
(* Tokens (src/src/lox/token.rs).                                          *)
(***************************************************************************)
\* Option<LiteralValue>::None of a token
NoLiteral == [t |-> "None"]

\* Token::new(token_type, lexeme, literal, line)
Token(token_type, lexeme, literal, line) ==
    [token_type |-> token_type, lexeme |-> lexeme, literal |-> literal,
     line |-> line]

\* LoxError
ParseError(message) == [e |-> "ParseError", message |-> message]
UnterminatedString(message) ==
    [e |-> "UnterminatedString", message |-> message]
UnexpectedCharacter(c) == [e |-> "UnexpectedCharacter", c |-> c]
ReturnOutsideFunction == [e |-> "ReturnOutsideFunction"]

(***************************************************************************)
(* Scanner (src/src/lox/scanner.rs).  The source is a sequence of          *)
(* one-character strings; start and current are the 0-based offsets of the *)
(* Rust code.                                                              *)
(***************************************************************************)
Digits == {"0", "1", "2", "3", "4", "5", "6", "7", "8", "9"}
Letters ==
    {"a", "b", "c", "d", "e", "f", "g", "h", "i", "j", "k", "l", "m", "n",
     "o", "p", "q", "r", "s", "t", "u", "v", "w", "x", "y", "z",
     "A", "B", "C", "D", "E", "F", "G", "H", "I", "J", "K", "L", "M", "N",
     "O", "P", "Q", "R", "S", "T", "U", "V", "W", "X", "Y", "Z"}
is_ascii_digit(c) == c \in Digits
is_ascii_alphanumeric(c) == c \in Digits \cup Letters

\* unwrap_or('\0')
NoChar == "\\0"

\* Scanner::new(source)
ScannerNew(source) ==
    [source |-> source, tokens |-> <<>>, start |-> 0, current |-> 0,
     line |-> 1]

\* self.source.chars().nth(index).unwrap_or('\0')
CharAt(source, index) ==
    IF index < Len(source) THEN source[index + 1] ELSE NoChar

\* self.source[from..to].to_string()
RECURSIVE Text(_, _, _)
Text(source, from, to) ==
    IF from >= to THEN ""
    ELSE CharAt(source, from) \o Text(source, from + 1, to)

\* fn is_at_end(&self) of the scanner
Scanner_is_at_end(sc) == sc.current >= Len(sc.source)

\* fn advance(&mut self) of the scanner; the character it returns is
\* CharAt(sc.source, sc.current)
Scanner_advance(sc) == [sc EXCEPT !.current = @ + 1]

\* fn match_char(&mut self, expected): whether it matches
match_char(sc, expected) ==
    /\ ~Scanner_is_at_end(sc)
    /\ CharAt(sc.source, sc.current) = expected

\* fn peek(&self) of the scanner
Scanner_peek(sc) ==
    IF Scanner_is_at_end(sc) THEN NoChar ELSE CharAt(sc.source, sc.current)

\* fn peek_next(&self)
peek_next(sc) ==
    IF sc.current + 1 >= Len(sc.source) THEN NoChar
    ELSE CharAt(sc.source, sc.current + 1)

\* fn add_token(&mut self, token_type)
add_token(sc, token_type) ==
    [sc EXCEPT !.tokens =
        Append(@, Token(token_type, Text(sc.source, sc.start, sc.current),
                        NoLiteral, sc.line))]

\* fn add_token_with_literal(&mut self, token_type, literal)
add_token_with_literal(sc, token_type, literal) ==
    [sc EXCEPT !.tokens =
        Append(@, Token(token_type, Text(sc.source, sc.start, sc.current),
                        literal, sc.line))]

\* what a scanning step leaves behind: the scanner and Ok(()) or Err(error)
SR(sc, res) == [scanner |-> sc, result |-> res]
Unit == [t |-> "Unit"]

\* the one- or two-character operators: `if self.match_char('=')`
one_or_two(sc, two, one) ==
    IF match_char(sc, "=") THEN add_token(Scanner_advance(sc), two)
    ELSE add_token(sc, one)

\* `//`: while !self.is_at_end() && self.peek() != '\n' { self.advance(); }
RECURSIVE skip_line_comment(_)
skip_line_comment(sc) ==
    IF ~Scanner_is_at_end(sc) /\ Scanner_peek(sc) # "\n"
    THEN skip_line_comment(Scanner_advance(sc))
    ELSE sc

unterminated(sc) ==
    UnterminatedString("Unterminated string literal at line "
                           \o ToString(sc.line) \o ".")

\* a skip_block_comment that ends at the first `*/`
RECURSIVE skip_block_comment_flat(_, _)
skip_block_comment_flat(sc, depth) ==
    IF Scanner_is_at_end(sc) THEN SR(sc, Err(unterminated(sc)))
    ELSE IF Scanner_peek(sc) = "*" /\ peek_next(sc) = "/"
    THEN SR(Scanner_advance(Scanner_advance(sc)), Ok(Unit))
    ELSE skip_block_comment_flat(
             Scanner_advance(IF Scanner_peek(sc) = "\n"
                             THEN [sc EXCEPT !.line = @ + 1] ELSE sc), depth)

\* fn skip_block_comment(&mut self)
RECURSIVE skip_block_comment(_, _)
skip_block_comment(sc, depth) ==
    IF depth > 0 /\ ~Scanner_is_at_end(sc)
    THEN IF Scanner_peek(sc) = "/" /\ peek_next(sc) = "*"
         THEN skip_block_comment(Scanner_advance(Scanner_advance(sc)),
                                 depth + 1)
         ELSE IF Scanner_peek(sc) = "*" /\ peek_next(sc) = "/"
         THEN skip_block_comment(Scanner_advance(Scanner_advance(sc)),
                                 depth - 1)
         ELSE IF Scanner_peek(sc) = "\n"
         THEN skip_block_comment(
                  Scanner_advance([sc EXCEPT !.line = @ + 1]), depth)
         ELSE skip_block_comment(Scanner_advance(sc), depth)
    ELSE IF depth > 0 THEN SR(sc, Err(unterminated(sc)))
    ELSE SR(sc, Ok(Unit))

\* string(), the loop up to the closing quote
RECURSIVE string_body(_)
string_body(sc) ==
    IF ~Scanner_is_at_end(sc) /\ Scanner_peek(sc) # "\""
    THEN string_body(Scanner_advance(
             IF Scanner_peek(sc) = "\n" THEN [sc EXCEPT !.line = @ + 1]
             ELSE sc))
    ELSE sc

\* string(), after the loop
string_close(sc) ==
    IF Scanner_is_at_end(sc) THEN SR(sc, Err(unterminated(sc)))
    ELSE SR(add_token_with_literal(
                Scanner_advance(sc), "StringLit",
                String(Text(sc.source, sc.start + 1, sc.current))),
            Ok(Unit))

\* a string() that ends the literal at the end of the input
string_at_end(sc) ==
    LET body == string_body(sc)
    IN  SR(add_token_with_literal(
               Scanner_advance(body), "StringLit",
               String(Text(body.source, body.start + 1, body.current))),
           Ok(Unit))

\* fn string(&mut self)
string(sc) == string_close(string_body(sc))

\* while self.peek().is_ascii_digit() { self.advance(); }
RECURSIVE digits(_)
digits(sc) ==
    IF is_ascii_digit(Scanner_peek(sc)) THEN digits(Scanner_advance(sc))
    ELSE sc

\* number(), the optional fraction
fraction(sc) ==
    IF Scanner_peek(sc) = "." /\ is_ascii_digit(peek_next(sc))
    THEN digits(Scanner_advance(sc))
    ELSE sc

DigitValue(c) ==
    CASE c = "0" -> 0 [] c = "1" -> 1 [] c = "2" -> 2 [] c = "3" -> 3
      [] c = "4" -> 4 [] c = "5" -> 5 [] c = "6" -> 6 [] c = "7" -> 7
      [] c = "8" -> 8 [] c = "9" -> 9

\* the value of the decimal digits source[from..to]
RECURSIVE Whole(_, _, _, _)
Whole(source, from, to, value) ==
    IF from >= to \/ ~is_ascii_digit(CharAt(source, from)) THEN value
    ELSE Whole(source, from + 1, to, 10 * value + DigitValue(CharAt(source, from)))

\* the offset of the first character of source[from..to] that is no digit
RECURSIVE WholeEnd(_, _, _)
WholeEnd(source, from, to) ==
    IF from >= to \/ ~is_ascii_digit(CharAt(source, from)) THEN from
    ELSE WholeEnd(source, from + 1, to)

\* the end of the fraction digits source[from..to] without trailing zeros
RECURSIVE FractionEnd(_, _, _)
FractionEnd(source, from, to) ==
    IF to > from /\ CharAt(source, to - 1) = "0"
    THEN FractionEnd(source, from, to - 1)
    ELSE to

\* self.source[start..current].parse::<f64>(): an integer where the lexeme
\* has no fraction, otherwise the integer part with the fraction's digits
parse_f64(source, from, to) ==
    IF FractionEnd(source, WholeEnd(source, from, to) + 1, to)
            <= WholeEnd(source, from, to) + 1
    THEN Whole(source, from, to, 0)
    ELSE [whole |-> Whole(source, from, to, 0),
          fraction |->
              Text(source, WholeEnd(source, from, to) + 1,
                   FractionEnd(source, WholeEnd(source, from, to) + 1, to))]

\* number(), after the digits are consumed
number_token(sc) ==
    add_token_with_literal(sc, "Number",
                           Number(parse_f64(sc.source, sc.start, sc.current)))

\* fn number(&mut self)
number(sc) == number_token(fraction(digits(sc)))

\* while !self.is_at_end() && (alphanumeric || '_') { self.advance(); }
RECURSIVE identifier_body(_)
identifier_body(sc) ==
    IF /\ ~Scanner_is_at_end(sc)
       /\ (is_ascii_alphanumeric(Scanner_peek(sc)) \/ Scanner_peek(sc) = "_")
    THEN identifier_body(Scanner_advance(sc))
    ELSE sc

\* identifier(), the match on the text
keyword(text) ==
    CASE text = "and" -> "And" [] text = "class" -> "Class"
      [] text = "else" -> "Else" [] text = "false" -> "False"
      [] text = "for" -> "For" [] text = "fun" -> "Fun"
      [] text = "if" -> "If" [] text = "nil" -> "Nil"
      [] text = "or" -> "Or" [] text = "print" -> "Print"
      [] text = "return" -> "Return" [] text = "super" -> "Super"
      [] text = "this" -> "This" [] text = "true" -> "True"
      [] text = "var" -> "Var" [] text = "while" -> "While"
      [] OTHER -> "Identifier"

\* identifier(), after the loop
identifier_token(sc) ==
    add_token(sc, keyword(Text(sc.source, sc.start, sc.current)))

\* fn identifier(&mut self)
identifier(sc) == identifier_token(identifier_body(sc))

\* scan_token, the match on the character c that advance() returned
scan_char(sc, c) ==
    CASE c = "(" -> SR(add_token(sc, "LeftParen"), Ok(Unit))
      [] c = ")" -> SR(add_token(sc, "RightParen"), Ok(Unit))
      [] c = "{" -> SR(add_token(sc, "LeftBrace"), Ok(Unit))
      [] c = "}" -> SR(add_token(sc, "RightBrace"), Ok(Unit))
      [] c = "," -> SR(add_token(sc, "Comma"), Ok(Unit))
      [] c = "." -> SR(add_token(sc, "Dot"), Ok(Unit))
      [] c = "-" -> SR(add_token(sc, "Minus"), Ok(Unit))
      [] c = "+" -> SR(add_token(sc, "Plus"), Ok(Unit))
      [] c = ";" -> SR(add_token(sc, "Semicolon"), Ok(Unit))
      [] c = "*" -> SR(add_token(sc, "Star"), Ok(Unit))
      [] c = "%" -> SR(add_token(sc, "Percent"), Ok(Unit))
      [] c = "!" -> SR(one_or_two(sc, "BangEqual", "Bang"), Ok(Unit))
      [] c = "=" -> SR(one_or_two(sc, "EqualEqual", "Equal"), Ok(Unit))
      [] c = "<" -> SR(one_or_two(sc, "LessEqual", "Less"), Ok(Unit))
      [] c = ">" -> SR(one_or_two(sc, "GreaterEqual", "Greater"), Ok(Unit))
      [] c = "/" ->
            IF match_char(sc, "/")
            THEN SR(skip_line_comment(Scanner_advance(sc)), Ok(Unit))
            ELSE IF match_char(sc, "*")
            THEN skip_block_comment(Scanner_advance(sc), 1)
            ELSE SR(add_token(sc, "Slash"), Ok(Unit))
      [] c = "\"" -> string(sc)
      [] c \in {" ", "\r", "\t"} -> SR(sc, Ok(Unit))
      [] c = "\n" -> SR([sc EXCEPT !.line = @ + 1], Ok(Unit))
      [] OTHER ->
            IF is_ascii_digit(c) THEN SR(number(sc), Ok(Unit))
            ELSE IF is_ascii_alphanumeric(c) \/ c = "_"
            THEN SR(identifier(sc), Ok(Unit))
            ELSE SR(sc, Err(UnexpectedCharacter(c)))

\* fn scan_token(&mut self)
scan_token(sc) == scan_char(Scanner_advance(sc), CharAt(sc.source, sc.current))

RECURSIVE scan_loop(_)

\* scan_tokens, `self.scan_token()?`
scan_next(done) ==
    IF done.result.k # "Ok" THEN done ELSE scan_loop(done.scanner)

\* scan_tokens, the `while !self.is_at_end()` loop
scan_loop(sc) ==
    IF Scanner_is_at_end(sc) THEN SR(sc, Ok(Unit))
    ELSE scan_next(scan_token([sc EXCEPT !.start = sc.current]))

\* self.tokens.push(Token::new(TokenType::Eof, "".to_string(), None, line))
push_eof(sc) ==
    [sc EXCEPT !.tokens = Append(@, Token("Eof", "", NoLiteral, sc.line))]

\* Ok(self.tokens.clone())
tokens_clone(sc) == SR(sc, Ok(sc.tokens))

\* scan_tokens, after the loop
scan_finish(done) ==
    IF done.result.k # "Ok" THEN done
    ELSE tokens_clone(push_eof(done.scanner))

\* pub fn scan_tokens(&mut self)
scan_tokens(sc) == scan_finish(scan_loop(sc))

(***************************************************************************)
(* Parser (src/src/lox/parser.rs).  Every operator takes the parser's      *)
(* fields and returns PR(parser, result); AST nodes keep a token as its    *)
(* lexeme (names) or its token type (operators), as the evaluator reads    *)
(* them.                                                                   *)
(***************************************************************************)
MAX_RECURSION_DEPTH == 1000

\* Parser::new(tokens)
ParserNew(tokens) ==
    [tokens |-> tokens, current |-> 0, recursion_depth |-> 0,
     in_function |-> FALSE]

\* what a parsing function leaves behind: the parser and its Result
PR(p, res) == [parser |-> p, result |-> res]

\* peek() returning None
NoToken == Token("None", "", NoLiteral, 0)

\* fn peek(&self) of the parser
Parser_peek(p) ==
    IF p.current < Len(p.tokens) THEN p.tokens[p.current + 1] ELSE NoToken

\* fn check(&self, token_type)
check(p, token_type) ==
    Parser_peek(p) # NoToken /\ Parser_peek(p).token_type = token_type

\* fn is_at_end(&self) of the parser
Parser_is_at_end(p) ==
    IF Parser_peek(p) # NoToken THEN Parser_peek(p).token_type = "Eof"
    ELSE TRUE

\* fn advance(&mut self) of the parser; the token it returns is previous()
Parser_advance(p) ==
    IF ~Parser_is_at_end(p) THEN [p EXCEPT !.current = @ + 1] ELSE p

\* fn previous(&self)
previous(p) == p.tokens[p.current]

\* fn match_token(&mut self, types): whether one of the types is next; the
\* caller then continues from Parser_advance
match_token(p, types) == \E t \in types : check(p, t)

\* fn consume(&mut self, token_type, message)
consume(p, token_type, message) ==
    IF check(p, token_type)
    THEN PR(Parser_advance(p), Ok(previous(Parser_advance(p))))
    ELSE PR(p, Err(ParseError(message)))

\* `self.consume(..)?; Ok(node)`
after_consume(consumed, node) ==
    IF consumed.result.k # "Ok" THEN consumed
    ELSE PR(consumed.parser, Ok(node))

\* fn enter_function(&mut self)
enter_function(p) == [p EXCEPT !.in_function = TRUE]

\* an exit_function that leaves the flag as it is
exit_function_keeps(p) == p

\* fn exit_function(&mut self)
exit_function(p) == [p EXCEPT !.in_function = FALSE]

ComparisonOperators == {"Greater", "GreaterEqual", "Less", "LessEqual"}
TermOperators == {"Minus", "Plus"}
FactorOperators == {"Slash", "Star", "Percent"}
UnaryOperators == {"Bang", "Minus"}

RECURSIVE expression(_)
RECURSIVE assignment(_)
RECURSIVE equality(_)
RECURSIVE binary_level(_, _)
RECURSIVE binary_loop(_, _)
RECURSIVE unary(_)
RECURSIVE primary(_)
RECURSIVE arguments(_, _)
RECURSIVE statement(_)
RECURSIVE declaration(_)
RECURSIVE var_declaration(_)
RECURSIVE expression_statement(_)
RECURSIVE block(_)
RECURSIVE block_statements(_, _)
RECURSIVE function(_, _)
RECURSIVE parameters(_, _)
RECURSIVE parse_loop(_, _)

\* expression(), after assignment() returned
expression_exit(done) == [done EXCEPT !.parser.recursion_depth = @ - 1]

\* fn expression(&mut self)
expression(p) ==
    IF p.recursion_depth > MAX_RECURSION_DEPTH
    THEN PR(p, Err(ParseError("Recursion depth exceeded.")))
    ELSE expression_exit(assignment([p EXCEPT !.recursion_depth = @ + 1]))

\* assignment(), once the right-hand side is parsed
assignment_target(expr, value) ==
    IF value.result.k # "Ok" THEN value
    ELSE IF expr.result.value.t = "Variable"
    THEN PR(value.parser,
            Ok(Assign(expr.result.value.name, value.result.value)))
    ELSE PR(value.parser, Err(ParseError("Invalid assignment target.")))

\* assignment(), once the left-hand side is parsed
assignment_of(expr) ==
    IF expr.result.k # "Ok" THEN expr
    ELSE IF match_token(expr.parser, {"Equal"})
    THEN assignment_target(expr, assignment(Parser_advance(expr.parser)))
    ELSE expr

\* fn assignment(&mut self)
assignment(p) == assignment_of(equality(p))

\* a fold that puts the new operand on the left
binary_fold_swapped(expr, operator, right) ==
    IF right.result.k # "Ok" THEN right
    ELSE PR(right.parser,
            Ok(Binary(right.result.value, operator.token_type,
                      expr.result.value)))

\* expr = Expr::Binary { left: expr, operator, right }
binary_fold(expr, operator, right) ==
    IF right.result.k # "Ok" THEN right
    ELSE PR(right.parser,
            Ok(Binary(expr.result.value, operator.token_type,
                      right.result.value)))

\* equality(), comparison(), term() and factor() are one function written
\* four times: each parses an operand with the next function and folds
\* while one of its own operators follows.  The operators of each:
LevelOperators(level) ==
    CASE level = "equality" -> EqualityOperators
      [] level = "comparison" -> ComparisonOperators
      [] level = "term" -> TermOperators
      [] level = "factor" -> FactorOperators

\* the function each calls for its operands: equality() calls comparison(),
\* comparison() term(), term() factor() and factor() unary()
level_operand(p, level) ==
    CASE level = "equality" -> binary_level(p, "comparison")
      [] level = "comparison" -> binary_level(p, "term")
      [] level = "term" -> binary_level(p, "factor")
      [] level = "factor" -> unary(p)

\* `while self.match_token(&[..]) { operator; right; expr = Binary }`
binary_loop(level, expr) ==
    IF /\ expr.result.k = "Ok"
       /\ match_token(expr.parser, LevelOperators(level))
    THEN binary_loop(level,
             binary_fold(expr, Parser_peek(expr.parser),
                         level_operand(Parser_advance(expr.parser), level)))
    ELSE expr

\* `let mut expr = self.<next>()?;` and the loop
binary_level(p, level) == binary_loop(level, level_operand(p, level))

\* fn equality(&mut self)
equality(p) == binary_level(p, "equality")

\* fn comparison(&mut self)
comparison(p) == binary_level(p, "comparison")

\* fn term(&mut self)
term(p) == binary_level(p, "term")

\* fn factor(&mut self)
factor(p) == binary_level(p, "factor")

\* unary() calls itself once for every `!` or `-` in front of the operand
\* and touches no field but current.  The calls are followed here without
\* recursion, so that an operand under a thousand operators can be parsed:
\* the number of operator tokens that stand at the parser's position
UnaryRun(p) ==
    CHOOSE k \in 0 .. Len(p.tokens) - p.current :
        /\ \A i \in 1 .. k : p.tokens[p.current + i].token_type \in UnaryOperators
        /\ ~match_token([p EXCEPT !.current = @ + k], UnaryOperators)

\* Expr::Unary { operator, operand } for the operators tokens[from .. to],
\* the first outermost.  The innermost call of unary() returns first: the
\* operators right of the middle are applied to the operand, and the ones
\* left of it to the node that results
RECURSIVE unary_nodes(_, _, _, _)
unary_left(tokens, from, to, right) ==
    IF right.t = "Unary" THEN unary_nodes(tokens, from, to, right) ELSE right

unary_nodes(tokens, from, to, operand) ==
    IF from > to THEN operand
    ELSE IF from = to THEN Unary(tokens[from].token_type, operand)
    ELSE unary_left(tokens, from, (from + to) \div 2,
                    unary_nodes(tokens, (from + to) \div 2 + 1, to, operand))

\* unary(), once the operand is parsed: every pending call wraps it
unary_operand(p, right) ==
    IF right.result.k # "Ok" THEN right
    ELSE PR(right.parser,
            Ok(unary_nodes(p.tokens, p.current + 1, p.current + UnaryRun(p),
                           right.result.value)))

\* fn unary(&mut self)
unary(p) ==
    unary_operand(p, primary([p EXCEPT !.current = @ + UnaryRun(p)]))

\* primary(), the last two forms: `true` and `false`; anything else is
\* "Unexpected token."
primary_boolean(p) ==
    IF match_token(p, {"True"})
    THEN PR(Parser_advance(p), Ok(Literal(Boolean(TRUE))))
    ELSE IF match_token(p, {"False"})
    THEN PR(Parser_advance(p), Ok(Literal(Boolean(FALSE))))
    ELSE PR(p, Err(ParseError("Unexpected token.")))

\* primary(), Expr::Grouping once `)` is consumed
grouping_node(expr, paren) ==
    after_consume(paren, Grouping(expr.result.value))

\* primary(), the grouping once the inner expression is parsed
grouping_close(expr) ==
    IF expr.result.k # "Ok" THEN expr
    ELSE grouping_node(expr,
             consume(expr.parser, "RightParen",
                     "Expected ')' after expression."))

\* primary(), `if self.match_token(&[LeftParen])`
primary_grouping(p) ==
    IF match_token(p, {"LeftParen"})
    THEN grouping_close(expression(Parser_advance(p)))
    ELSE primary_boolean(p)

\* the argument loop, after one argument
arguments_more(args, arg) ==
    IF arg.result.k # "Ok" THEN arg
    ELSE IF match_token(arg.parser, {"Comma"})
    THEN arguments(Parser_advance(arg.parser),
                   Append(args, arg.result.value))
    ELSE PR(arg.parser, Ok(Append(args, arg.result.value)))

\* primary(), `loop { arguments.push(self.expression()?); .. }`
arguments(p, args) == arguments_more(args, expression(p))

\* primary(), Expr::Call once the arguments are parsed
call_close(variable, args) ==
    IF args.result.k # "Ok" THEN args
    ELSE after_consume(
             consume(args.parser, "RightParen",
                     "Expect ')' after arguments."),
             Call(Variable(variable.lexeme), args.result.value))

\* primary(), `if !self.check(RightParen) { loop { .. } }`
call_arguments(p) ==
    IF ~check(p, "RightParen") THEN arguments(p, <<>>)
    ELSE PR(p, Ok(<<>>))

\* primary(), after an identifier: a call or a variable
primary_call(p, variable) ==
    IF match_token(p, {"LeftParen"})
    THEN call_close(variable, call_arguments(Parser_advance(p)))
    ELSE PR(p, Ok(Variable(variable.lexeme)))

\* primary(), `if self.match_token(&[Identifier])`
primary_identifier(p) ==
    IF match_token(p, {"Identifier"})
    THEN primary_call(Parser_advance(p), Parser_peek(p))
    ELSE primary_grouping(p)

\* primary(), `if self.match_token(&[StringLit])`: a token without a string
\* literal is consumed and the later forms are tried
primary_string(p) ==
    IF match_token(p, {"StringLit"})
    THEN IF Parser_peek(p).literal.t = "String"
         THEN PR(Parser_advance(p), Ok(Literal(Parser_peek(p).literal)))
         ELSE primary_identifier(Parser_advance(p))
    ELSE primary_identifier(p)

\* fn primary(&mut self), from `if self.match_token(&[Number])`
primary(p) ==
    IF match_token(p, {"Number"})
    THEN IF Parser_peek(p).literal # NoLiteral
         THEN PR(Parser_advance(p), Ok(Literal(Parser_peek(p).literal)))
         ELSE primary_string(Parser_advance(p))
    ELSE primary_string(p)

\* expression_statement(), once the expression is parsed
expression_semicolon(expr) ==
    IF expr.result.k # "Ok" THEN expr
    ELSE after_consume(
             consume(expr.parser, "Semicolon",
                     "Expected ';' after expression or assignment."),
             StmtExpression(expr.result.value))

\* fn expression_statement(&mut self)
expression_statement(p) == expression_semicolon(expression(p))

\* var_declaration(), once the initializer is parsed
var_initializer(name, init) ==
    IF init.result.k # "Ok" THEN init
    ELSE after_consume(
             consume(init.parser, "Semicolon",
                     "Expected ';' after variable declaration."),
             StmtVar(name.lexeme, init.result.value))

\* var_declaration(), `let initializer = if self.match_token(&[Equal]) {..}`
var_initializer_clause(p) ==
    IF match_token(p, {"Equal"}) THEN expression(Parser_advance(p))
    ELSE PR(p, Ok(None))

\* var_declaration(), once the name is consumed
var_name(name) ==
    IF name.result.k # "Ok" THEN name
    ELSE var_initializer(name.result.value,
                         var_initializer_clause(name.parser))

\* fn var_declaration(&mut self)
var_declaration(p) ==
    var_name(consume(p, "Identifier", "Expected variable name."))

\* for_statement(), the statement built from the clauses: the increment is
\* appended to the body, the condition and body make a While, the
\* initializer is put before it
for_desugar(init, cond, inc, body) ==
    IF init # None
    THEN StmtBlock(<<init,
                     StmtWhile(cond,
                               IF inc # None
                               THEN StmtBlock(<<body, StmtExpression(inc)>>)
                               ELSE body)>>)
    ELSE StmtWhile(cond,
                   IF inc # None
                   THEN StmtBlock(<<body, StmtExpression(inc)>>)
                   ELSE body)

\* for_statement(), once the body is parsed
for_node(init, cond, inc, body) ==
    IF body.result.k # "Ok" THEN body
    ELSE PR(body.parser, Ok(for_desugar(init, cond, inc, body.result.value)))

\* for_statement(), once `)` is consumed
for_body_of(init, cond, inc, paren) ==
    IF paren.result.k # "Ok" THEN paren
    ELSE for_node(init, cond, inc, statement(paren.parser))

\* for_statement(), once the increment is parsed
for_after_increment(init, cond, inc) ==
    IF inc.result.k # "Ok" THEN inc
    ELSE for_body_of(init, cond, inc.result.value,
             consume(inc.parser, "RightParen",
                     "Expect ')' after for clauses."))

\* for_statement(), `let increment = if !self.check(RightParen) {..}`
for_increment_clause(p) ==
    IF ~check(p, "RightParen") THEN expression(p) ELSE PR(p, Ok(None))

\* for_statement(), once the `;` after the condition is consumed
for_increment_of(init, cond, semi) ==
    IF semi.result.k # "Ok" THEN semi
    ELSE for_after_increment(init, cond, for_increment_clause(semi.parser))

\* for_statement(), once the condition is parsed
for_after_condition(init, cond) ==
    IF cond.result.k # "Ok" THEN cond
    ELSE for_increment_of(init, cond.result.value,
             consume(cond.parser, "Semicolon",
                     "Expect ';' after loop condition."))

\* for_statement(), `let condition = if !self.check(Semicolon) {..}`
for_condition_clause(p) ==
    IF ~check(p, "Semicolon") THEN expression(p)
    ELSE PR(p, Ok(Literal(Boolean(TRUE))))

\* for_statement(), once the initializer is parsed
for_condition(init) ==
    IF init.result.k # "Ok" THEN init
    ELSE for_after_condition(init.result.value,
                             for_condition_clause(init.parser))

\* for_statement(), the initializer
for_initializer(p) ==
    IF match_token(p, {"Semicolon"}) THEN PR(Parser_advance(p), Ok(None))
    ELSE IF match_token(p, {"Var"}) THEN var_declaration(Parser_advance(p))
    ELSE expression_statement(p)

\* for_statement(), once its first consume returned
for_after_semicolon(semi) ==
    IF semi.result.k # "Ok" THEN semi
    ELSE for_condition(for_initializer(semi.parser))

\* fn for_statement(&mut self): the first thing it consumes is a Semicolon
for_statement(p) ==
    for_after_semicolon(
        consume(p, "Semicolon",
                "Expected ';' after expression or assignment."))

\* while_statement(), once the body is parsed
while_node(cond, body) ==
    IF body.result.k # "Ok" THEN body
    ELSE PR(body.parser, Ok(StmtWhile(cond.result.value, body.result.value)))

\* while_statement(), once `)` is consumed
while_after_close(cond, paren) ==
    IF paren.result.k # "Ok" THEN paren
    ELSE while_node(cond, statement(paren.parser))

\* while_statement(), once the condition is parsed
while_after_condition(cond) ==
    IF cond.result.k # "Ok" THEN cond
    ELSE while_after_close(cond,
             consume(cond.parser, "RightParen",
                     "Expect ')' after condition."))

\* while_statement(), once `(` is consumed
while_after_paren(paren) ==
    IF paren.result.k # "Ok" THEN paren
    ELSE while_after_condition(expression(paren.parser))

\* fn while_statement(&mut self)
while_statement(p) ==
    while_after_paren(consume(p, "LeftParen", "Expect '(' after 'while'."))

\* if_statement(), once the else branch is parsed
if_node(cond, then_branch, else_branch) ==
    IF else_branch.result.k # "Ok" THEN else_branch
    ELSE PR(else_branch.parser,
            Ok(StmtIf(cond.result.value, then_branch.result.value,
                      else_branch.result.value)))

\* if_statement(), `let else_branch = if self.match_token(&[Else]) {..}`
else_branch_of(p) ==
    IF match_token(p, {"Else"}) THEN statement(Parser_advance(p))
    ELSE PR(p, Ok(None))

\* if_statement(), once the then branch is parsed
if_after_then(cond, then_branch) ==
    IF then_branch.result.k # "Ok" THEN then_branch
    ELSE if_node(cond, then_branch, else_branch_of(then_branch.parser))

\* if_statement(), once `)` is consumed
if_after_close(cond, paren) ==
    IF paren.result.k # "Ok" THEN paren
    ELSE if_after_then(cond, statement(paren.parser))

\* if_statement(), once the condition is parsed
if_after_condition(cond) ==
    IF cond.result.k # "Ok" THEN cond
    ELSE if_after_close(cond,
             consume(cond.parser, "RightParen",
                     "Expect ')' after if condition."))

\* if_statement(), once `(` is consumed
if_after_paren(paren) ==
    IF paren.result.k # "Ok" THEN paren
    ELSE if_after_condition(expression(paren.parser))

\* fn if_statement(&mut self)
if_statement(p) ==
    if_after_paren(consume(p, "LeftParen", "Expect '(' after 'if'."))

\* return_statement(), once the value is parsed
return_value(value) ==
    IF value.result.k # "Ok" THEN value
    ELSE after_consume(
             consume(value.parser, "Semicolon",
                     "Expected ';' after return value."),
             StmtReturn(value.result.value))

\* return_statement(), `let value = if !self.check(Semicolon) {..}`
return_value_clause(p) ==
    IF ~check(p, "Semicolon") THEN expression(p) ELSE PR(p, Ok(None))

\* fn return_statement(&mut self)
return_statement(p) ==
    IF ~p.in_function THEN PR(p, Err(ReturnOutsideFunction))
    ELSE return_value(return_value_clause(p))

\* print_statement(), once the value is parsed
print_value(value) ==
    IF value.result.k # "Ok" THEN value
    ELSE after_consume(
             consume(value.parser, "Semicolon", "Expected ';' after value."),
             StmtPrint(value.result.value))

\* fn print_statement(&mut self)
print_statement(p) == print_value(expression(p))

\* block(), once the statements are parsed
block_close(statements) ==
    IF statements.result.k # "Ok" THEN statements
    ELSE after_consume(
             consume(statements.parser, "RightBrace",
                     "Expected '}' after block."),
             StmtBlock(statements.result.value))

\* block(), `statements.push(self.declaration()?)`
block_push(statements, stmt) ==
    IF stmt.result.k # "Ok" THEN stmt
    ELSE block_statements(stmt.parser, Append(statements, stmt.result.value))

\* block(), `while !self.check(RightBrace) && !self.is_at_end()`
block_statements(p, statements) ==
    IF ~check(p, "RightBrace") /\ ~Parser_is_at_end(p)
    THEN block_push(statements, declaration(p))
    ELSE PR(p, Ok(statements))

\* fn block(&mut self)
block(p) == block_close(block_statements(p, <<>>))

\* statement(), the match on the type of the next token
statement_match(p, token_type) ==
    CASE token_type = "None" ->
            PR(p, Err(ParseError("Unexpected end of input.")))
      [] token_type = "For" -> for_statement(Parser_advance(p))
      [] token_type = "While" -> while_statement(Parser_advance(p))
      [] token_type = "If" -> if_statement(Parser_advance(p))
      [] token_type = "Return" -> return_statement(Parser_advance(p))
      [] token_type = "Print" -> print_statement(Parser_advance(p))
      [] token_type = "LeftBrace" -> block(Parser_advance(p))
      [] OTHER -> expression_semicolon(assignment(p))

\* fn statement(&mut self)
statement(p) == statement_match(p, Parser_peek(p).token_type)

\* [Error: Parse error '..'], the Display of a LoxError
display(error) ==
    CASE error.e = "ParseError" ->
            "[Error: Parse error '" \o error.message \o "']"
      [] error.e = "ReturnOutsideFunction" ->
            "[Error: Cannot return from outside a function.]"
      [] OTHER -> "[Error]"

\* function(), after a parameter: the loop ends where no comma follows
parameter_push(params, name, p) ==
    IF match_token(p, {"Comma"})
    THEN parameters(Parser_advance(p), Append(params, name))
    ELSE PR(p, Ok(Append(params, name)))

\* function(), once the default value of a parameter is parsed
parameter_default(params, name, default) ==
    IF default.result.k # "Ok"
    THEN PR(default.parser,
            Err(ParseError("Invalid default value for parameter '"
                               \o name.lexeme \o "': "
                               \o display(default.result.err))))
    ELSE parameter_push(params, name, default.parser)

\* function(), once a parameter name is consumed
parameter_name(params, name) ==
    IF name.result.k # "Ok" THEN name
    ELSE IF \E i \in 1 .. Len(params) :
                params[i].lexeme = name.result.value.lexeme
    THEN PR(name.parser,
            Err(ParseError("Duplicate parameter name '"
                               \o name.result.value.lexeme \o "'.")))
    ELSE IF match_token(name.parser, {"Equal"})
    THEN parameter_default(params, name.result.value,
                           expression(Parser_advance(name.parser)))
    ELSE parameter_push(params, name.result.value, name.parser)

\* function(), the parameter loop
parameters(p, params) ==
    parameter_name(params, consume(p, "Identifier", "Expect parameter name."))

\* params.into_iter().map(|(token, _)| token)
lexemes(tokens) == [i \in 1 .. Len(tokens) |-> tokens[i].lexeme]

\* function(), once the body block is parsed: exit_function is called and
\* Stmt::Function is built
function_node(name, params, body) ==
    IF body.result.k # "Ok" THEN body
    ELSE PR(exit_function(body.parser),
            Ok(StmtFunction(name.lexeme, lexemes(params),
                            body.result.value.statements)))

\* function(), once `{` is consumed
function_body(name, params, brace) ==
    IF brace.result.k # "Ok" THEN brace
    ELSE function_node(name, params, block(brace.parser))

\* function(), once `)` is consumed
function_brace(kind, name, params, paren) ==
    IF paren.result.k # "Ok" THEN paren
    ELSE function_body(name, params,
             consume(paren.parser, "LeftBrace",
                     "Expect '{' before " \o kind \o " body."))

\* function(), once the parameters are parsed
function_close(kind, name, params) ==
    IF params.result.k # "Ok" THEN params
    ELSE function_brace(kind, name, params.result.value,
             consume(params.parser, "RightParen",
                     "Expect ')' after parameters."))

\* function(), `if !self.check(RightParen) { loop { .. } }`
parameter_list(p) ==
    IF ~check(p, "RightParen") THEN parameters(p, <<>>)
    ELSE PR(p, Ok(<<>>))

\* function(), once `(` is consumed
function_paren(kind, name, paren) ==
    IF paren.result.k # "Ok" THEN paren
    ELSE function_close(kind, name, parameter_list(paren.parser))

\* function(), once the name is consumed
function_name(kind, name) ==
    IF name.result.k # "Ok" THEN name
    ELSE function_paren(kind, name.result.value,
             consume(name.parser, "LeftParen",
                     "Expect '(' after " \o kind \o " name."))

\* fn function(&mut self, kind)
function(p, kind) ==
    function_name(kind,
        consume(enter_function(p), "Identifier",
                "Expect " \o kind \o " name."))

\* fn declaration(&mut self)
declaration(p) ==
    IF match_token(p, {"Fun"}) THEN function(Parser_advance(p), "function")
    ELSE IF match_token(p, {"Var"}) THEN var_declaration(Parser_advance(p))
    ELSE statement(p)

\* parse(), the match on what declaration() returned
parse_push(statements, stmt) ==
    IF stmt.result.k # "Ok" THEN stmt
    ELSE parse_loop(stmt.parser, Append(statements, stmt.result.value))

\* parse(), `while !self.is_at_end()`
parse_loop(p, statements) ==
    IF ~Parser_is_at_end(p) THEN parse_push(statements, declaration(p))
    ELSE PR(p, Ok(statements))

\* pub fn parse(&mut self)
parse(p) == parse_loop(p, <<>>)

(***************************************************************************)
(* Token sequences handed to the parser, as scan_tokens returns them (all  *)
(* on line 1, closed by the Eof token).                                    *)
(***************************************************************************)
\* the text of the punctuation and keyword tokens
Lexeme(token_type) ==
    CASE token_type = "LeftParen" -> "(" [] token_type = "RightParen" -> ")"
      [] token_type = "LeftBrace" -> "{" [] token_type = "RightBrace" -> "}"
      [] token_type = "Comma" -> "," [] token_type = "Minus" -> "-"
      [] token_type = "Plus" -> "+" [] token_type = "Semicolon" -> ";"
      [] token_type = "Slash" -> "/" [] token_type = "Star" -> "*"
      [] token_type = "Bang" -> "!" [] token_type = "BangEqual" -> "!="
      [] token_type = "Equal" -> "=" [] token_type = "EqualEqual" -> "=="
      [] token_type = "Greater" -> ">" [] token_type = "Less" -> "<"
      [] token_type = "False" -> "false" [] token_type = "True" -> "true"
      [] token_type = "Fun" -> "fun" [] token_type = "For" -> "for"
      [] token_type = "Nil" -> "nil" [] token_type = "Print" -> "print"
      [] token_type = "Return" -> "return" [] token_type = "Var" -> "var"
      [] token_type = "While" -> "while" [] token_type = "If" -> "if"
      [] OTHER -> ""

\* add_token(token_type) on a punctuation or keyword lexeme
Tok(token_type) == Token(token_type, Lexeme(token_type), NoLiteral, 1)
\* identifier() on a name
IdentifierToken(name) == Token("Identifier", name, NoLiteral, 1)
\* number() on the digits of n
NumberToken(n) == Token("Number", ToString(n), Number(n), 1)
\* string() on "s"
StringToken(s) == Token("StringLit", "\"" \o s \o "\"", String(s), 1)
\* the token scan_tokens pushes last
EofToken == Token("Eof", "", NoLiteral, 1)
\* the tokens of a whole source
Scanned(tokens) == tokens \o <<EofToken>>

\* print <expression> ;
PrintTokens(expr) ==
    Scanned(<<Tok("Print")>> \o expr \o <<Tok("Semicolon")>>)

\* for ( A ; B ; C ) print i;   with each clause present or left out.  A
\* clause is its tokens and the node the parser is to build from them.
Clause(tokens, node) == [tokens |-> tokens, node |-> node]
NoClause == Clause(<<>>, None)
ForInitializers ==
    {NoClause,
     \* var i = 0
     Clause(<<Tok("Var"), IdentifierToken("i"), Tok("Equal"), NumberToken(0)>>,
            StmtVar("i", Num(0))),
     \* i = 0
     Clause(<<IdentifierToken("i"), Tok("Equal"), NumberToken(0)>>,
            StmtExpression(Assign("i", Num(0))))}
ForConditions ==
    {NoClause,
     \* i < 2
     Clause(<<IdentifierToken("i"), Tok("Less"), NumberToken(2)>>,
            Binary(Variable("i"), "Less", Num(2)))}
ForIncrements ==
    {NoClause,
     \* i = i + 1
     Clause(<<IdentifierToken("i"), Tok("Equal"), IdentifierToken("i"),
              Tok("Plus"), NumberToken(1)>>,
            Assign("i", Binary(Variable("i"), "Plus", Num(1))))}
ForTokens(a, b, c) ==
    Scanned(<<Tok("For"), Tok("LeftParen")>> \o a.tokens
            \o <<Tok("Semicolon")>> \o b.tokens \o <<Tok("Semicolon")>>
            \o c.tokens
            \o <<Tok("RightParen"), Tok("Print"), IdentifierToken("i"),
                 Tok("Semicolon")>>)
ForTokenPrograms ==
    {ForTokens(a, b, c) :
        a \in ForInitializers, b \in ForConditions, c \in ForIncrements}
\* for ; var i = 0; i < 2; i = i + 1) print i;     (no opening parenthesis)
ForWithoutParen ==
    Scanned(<<Tok("For"), Tok("Semicolon"), Tok("Var"), IdentifierToken("i"),
              Tok("Equal"), NumberToken(0), Tok("Semicolon"),
              IdentifierToken("i"), Tok("Less"), NumberToken(2),
              Tok("Semicolon"), IdentifierToken("i"), Tok("Equal"),
              IdentifierToken("i"), Tok("Plus"), NumberToken(1),
              Tok("RightParen"), Tok("Print"), IdentifierToken("i"),
              Tok("Semicolon")>>)

\* fun <name>() { <body> }
FunTokens(name, body) ==
    <<Tok("Fun"), IdentifierToken(name), Tok("LeftParen"), Tok("RightParen"),
      Tok("LeftBrace")>> \o body \o <<Tok("RightBrace")>>
\* return;     return 1;
ReturnTokens == <<Tok("Return"), Tok("Semicolon")>>
ReturnOneTokens == <<Tok("Return"), NumberToken(1), Tok("Semicolon")>>
ReturnForms == {ReturnTokens, ReturnOneTokens}
\* what stands before a top-level return: nothing, a print, one complete
\* function declaration, two of them, a function with a function in it
BeforeReturn ==
    {<<>>,
     <<Tok("Print"), NumberToken(1), Tok("Semicolon")>>,
     FunTokens("f", <<>>),
     FunTokens("f", ReturnOneTokens),
     FunTokens("f", ReturnOneTokens) \o FunTokens("g", ReturnTokens),
     FunTokens("f", FunTokens("g", ReturnTokens))}
\* the statement a top-level return sits in: bare, in a block, in an if, in
\* a while
AroundReturn(r) ==
    {r,
     <<Tok("LeftBrace")>> \o r \o <<Tok("RightBrace")>>,
     <<Tok("If"), Tok("LeftParen"), Tok("True"), Tok("RightParen")>> \o r,
     <<Tok("While"), Tok("LeftParen"), Tok("False"), Tok("RightParen")>> \o r}
TopLevelReturnPrograms ==
    {Scanned(before \o around) :
        before \in BeforeReturn,
        around \in UNION {AroundReturn(r) : r \in ReturnForms}}
\* fun f() { return 1; } fun g() { return; }
ReturnAfterFunctions ==
    Scanned(FunTokens("f", ReturnOneTokens) \o FunTokens("g", ReturnTokens)
            \o ReturnOneTokens)
\* returns inside one function body, with no function nested before them
ReturnInFunctionPrograms ==
    {Scanned(FunTokens("f", around)) :
        around \in UNION {AroundReturn(r) : r \in ReturnForms}}

\* fun f() { fun g() { .. } return 1; }
NestedThenReturn(inner) ==
    Scanned(FunTokens("f", FunTokens("g", inner) \o ReturnOneTokens))
NestedFunctionPrograms ==
    {NestedThenReturn(inner) : inner \in {<<>>, ReturnTokens, ReturnOneTokens}}

\* the primary forms: 1   "s"   true   false   nil   a   (1)
PrimaryForms ==
    {Clause(<<NumberToken(1)>>, Num(1)),
     Clause(<<StringToken("s")>>, Str("s")),
     Clause(<<Tok("True")>>, True),
     Clause(<<Tok("False")>>, False),
     Clause(<<Tok("Nil")>>, Literal(Nil)),
     Clause(<<IdentifierToken("a")>>, Variable("a")),
     Clause(<<Tok("LeftParen"), NumberToken(1), Tok("RightParen")>>,
            Grouping(Num(1)))}
PrimaryPrograms == {PrintTokens(form.tokens) : form \in PrimaryForms}

\* - - .. - 1 with one `-` more than MAX_RECURSION_DEPTH
DeepUnary ==
    PrintTokens([i \in 1 .. MAX_RECURSION_DEPTH + 2 |->
                    IF i = MAX_RECURSION_DEPTH + 2 THEN NumberToken(1)
                    ELSE Tok("Minus")])

\* print 1 op 2 op 3 .. ;   over one operator of the equality and the
\* comparison level and two of the term and the factor level
ParsedOperators == {"EqualEqual", "Less", "Plus", "Minus", "Star", "Slash"}
OperatorSequences ==
    UNION {[1 .. n -> ParsedOperators] : n \in 1 .. MaxOperators}
\* the tokens 1 ops[1] 2 ops[2] 3 ..
OperatorTokens(ops) ==
    [i \in 1 .. 2 * Len(ops) + 1 |->
        IF i % 2 = 1 THEN NumberToken((i + 1) \div 2) ELSE Tok(ops[i \div 2])]
OperatorPrograms == {PrintTokens(OperatorTokens(ops)) : ops \in OperatorSequences}
\* print 1 + 2 * 3 / (4 - 1);
Arithmetic ==
    PrintTokens(<<NumberToken(1), Tok("Plus"), NumberToken(2), Tok("Star"),
                  NumberToken(3), Tok("Slash"), Tok("LeftParen"),
                  NumberToken(4), Tok("Minus"), NumberToken(1),
                  Tok("RightParen")>>)

TokenPrograms ==
    ForTokenPrograms \cup {ForWithoutParen} \cup TopLevelReturnPrograms
        \cup {ReturnAfterFunctions} \cup ReturnInFunctionPrograms
        \cup NestedFunctionPrograms \cup PrimaryPrograms \cup {DeepUnary}
        \cup OperatorPrograms \cup {Arithmetic}

(***************************************************************************)
(* Bytecode chunks (src/src/vm/chunk.rs).  code is the byte vector and     *)
(* constants the constant pool; Rust index i is element i + 1 here.        *)
(***************************************************************************)
\* f64 arithmetic on fractions in lowest terms
RECURSIVE gcd(_, _)
gcd(a, b) == IF b = 0 THEN a ELSE gcd(b, a % b)

magnitude(a) == IF a < 0 THEN -a ELSE a

\* the f64 numerator / denominator, denominator # 0
ratio(numerator, denominator) ==
    LET g == gcd(magnitude(numerator), magnitude(denominator))
        s == IF denominator < 0 THEN -1 ELSE 1
    IN  [num |-> (s * numerator) \div g, den |-> (s * denominator) \div g]

\* the f64 of an integer literal
F64(a) == [num |-> a, den |-> 1]

\* enum OpCode
OpConstant(index) == [op |-> "OpConstant", index |-> index]
OpAdd == [op |-> "OpAdd"]
OpSubtract == [op |-> "OpSubtract"]
OpMultiply == [op |-> "OpMultiply"]
OpDivide == [op |-> "OpDivide"]
OpNegate == [op |-> "OpNegate"]
OpReturn == [op |-> "OpReturn"]
OpJump(offset) == [op |-> "OpJump", offset |-> offset]
OpJumpIfFalse(offset) == [op |-> "OpJumpIfFalse", offset |-> offset]
OpPop == [op |-> "OpPop"]
OpDefineGlobal(index) == [op |-> "OpDefineGlobal", index |-> index]
OpGetGlobal(index) == [op |-> "OpGetGlobal", index |-> index]
OpSetGlobal(index) == [op |-> "OpSetGlobal", index |-> index]
OpCall(arg_count, func_index) ==
    [op |-> "OpCall", arg_count |-> arg_count, func_index |-> func_index]

\* enum Constant
ConstantNumber(n) == [c |-> "Number", n |-> n]
ConstantString(s) == [c |-> "String", s |-> s]
ConstantFunction(f) == [c |-> "Function", f |-> f]

\* struct Function (src/src/vm/vm.rs)
VMFunction(name, function_chunk, arity) ==
    [name |-> name, chunk |-> function_chunk, arity |-> arity]

\* Chunk::new()
ChunkNew == [code |-> <<>>, constants |-> <<>>]

\* `value as u8`
as_u8(value) == value % 256

\* self.code.push(..) for each byte
push_code(c, bytes) == [c EXCEPT !.code = @ \o bytes]

\* pub fn write_op(&mut self, op: OpCode)
write_op(c, op) ==
    CASE op.op = "OpConstant" -> push_code(c, <<1, as_u8(op.index)>>)
      [] op.op = "OpAdd" -> push_code(c, <<2>>)
      [] op.op = "OpSubtract" -> push_code(c, <<3>>)
      [] op.op = "OpMultiply" -> push_code(c, <<4>>)
      [] op.op = "OpDivide" -> push_code(c, <<5>>)
      [] op.op = "OpNegate" -> push_code(c, <<6>>)
      [] op.op = "OpReturn" -> push_code(c, <<7>>)
      [] op.op = "OpJump" ->
            push_code(c, <<8, op.offset % 256, (op.offset \div 256) % 256>>)
      [] op.op = "OpJumpIfFalse" ->
            push_code(c, <<9, op.offset % 256, (op.offset \div 256) % 256>>)
      [] op.op = "OpPop" -> push_code(c, <<10>>)
      [] op.op = "OpDefineGlobal" -> push_code(c, <<11, as_u8(op.index)>>)
      [] op.op = "OpGetGlobal" -> push_code(c, <<12, as_u8(op.index)>>)
      [] op.op = "OpSetGlobal" -> push_code(c, <<13, as_u8(op.index)>>)
      [] op.op = "OpCall" -> push_code(c, <<14, op.arg_count, op.func_index>>)

\* pub fn add_constant(&mut self, constant) -> usize: the chunk and the
\* index returned
add_constant(c, constant) ==
    [chunk |-> [c EXCEPT !.constants = Append(@, constant)],
     index |-> Len(c.constants)]

\* pub fn write_jump(&mut self, op) -> usize: the chunk and the offset
\* returned
write_jump(c, op) ==
    [chunk |-> write_op(c, op), offset |-> Len(write_op(c, op).code) - 1]

\* pub fn patch_jump(&mut self, offset: usize)
patch_jump(c, offset) ==
    [c EXCEPT !.code[offset + 1] = as_u8(Len(c.code) - offset - 1)]

(***************************************************************************)
(* Bytecode compiler (src/src/vm/compiler.rs, src/src/vm/ast_node.rs).     *)
(* Every operator takes the chunk the Compiler holds and returns it with   *)
(* the Result of the function.                                             *)
(***************************************************************************)
\* enum ASTNode
NumberLiteral(value) == [n |-> "NumberLiteral", value |-> value]
StringLiteral(value) == [n |-> "StringLiteral", value |-> value]
VariableDeclaration(name, initializer) ==
    [n |-> "VariableDeclaration", name |-> name, initializer |-> initializer]
VariableReference(name) == [n |-> "VariableReference", name |-> name]
BinaryExpression(left, operator, right) ==
    [n |-> "BinaryExpression", left |-> left, operator |-> operator,
     right |-> right]
UnaryExpression(operator, right) ==
    [n |-> "UnaryExpression", operator |-> operator, right |-> right]
\* Option<Vec<ASTNode>>
NoNodes == [some |-> FALSE]
SomeNodes(nodes) == [some |-> TRUE, nodes |-> nodes]
IfStatement(condition, then_branch, else_branch) ==
    [n |-> "IfStatement", condition |-> condition,
     then_branch |-> then_branch, else_branch |-> else_branch]
FunctionDeclaration(name, params, body) ==
    [n |-> "FunctionDeclaration", name |-> name, parameters |-> params,
     body |-> body]
FunctionCall(name, args) ==
    [n |-> "FunctionCall", name |-> name, arguments |-> args]
\* Option<Box<ASTNode>>::None
NoNode == [n |-> "None"]
ReturnStatement(value) == [n |-> "ReturnStatement", value |-> value]

\* what a compiling function leaves behind: the chunk and its Result
CR(c, res) == [chunk |-> c, result |-> res]

\* Compiler::new()
CompilerNew == [chunk |-> ChunkNew]

RECURSIVE compile_node(_, _)
RECURSIVE compile_nodes(_, _)

\* `self.compile_node(node)?` after what was compiled before
then_compile(done, node) ==
    IF done.result.k # "Ok" THEN done ELSE compile_node(done.chunk, node)

\* `for statement in nodes { self.compile_node(statement)?; }`
nodes_next(done, rest) ==
    IF done.result.k # "Ok" THEN done ELSE compile_nodes(done.chunk, rest)

compile_nodes(c, nodes) ==
    IF nodes = <<>> THEN CR(c, Ok(Unit))
    ELSE nodes_next(compile_node(c, Head(nodes)), Tail(nodes))

\* BinaryExpression, the match on the operator
compile_binary(node, done) ==
    IF done.result.k # "Ok" THEN done
    ELSE CASE node.operator = "Plus" -> CR(write_op(done.chunk, OpAdd), Ok(Unit))
           [] node.operator = "Minus" ->
                 CR(write_op(done.chunk, OpSubtract), Ok(Unit))
           [] node.operator = "Star" ->
                 CR(write_op(done.chunk, OpMultiply), Ok(Unit))
           [] node.operator = "Slash" ->
                 CR(write_op(done.chunk, OpDivide), Ok(Unit))
           [] OTHER ->
                 CR(done.chunk,
                    Err(<<"Unsupported binary operator: ", node.operator>>))

\* UnaryExpression, the match on the operator
compile_unary(node, done) ==
    IF done.result.k # "Ok" THEN done
    ELSE IF node.operator = "Minus"
    THEN CR(write_op(done.chunk, OpNegate), Ok(Unit))
    ELSE CR(done.chunk, Err(<<"Unsupported unary operator: ", node.operator>>))

\* add_constant(Constant::String(name)) and write_op(OpDefineGlobal(index))
define_global_of(c, name) ==
    CR(write_op(add_constant(c, ConstantString(name)).chunk,
                OpDefineGlobal(add_constant(c, ConstantString(name)).index)),
       Ok(Unit))

\* VariableDeclaration, once the initializer is compiled
compile_declaration(node, done) ==
    IF done.result.k # "Ok" THEN done
    ELSE define_global_of(done.chunk, node.name)

\* IfStatement, after the else branch: patch_jump(jump_to_end)
if_end(jump_to_end, done) ==
    IF done.result.k # "Ok" THEN done
    ELSE CR(patch_jump(done.chunk, jump_to_end), Ok(Unit))

\* IfStatement, after the then branch: write_jump(OpJump(0)),
\* patch_jump(jump_if_false), the else branch
if_else(node, jump_if_false, done) ==
    IF done.result.k # "Ok" THEN done
    ELSE if_end(write_jump(done.chunk, OpJump(0)).offset,
                compile_nodes(
                    patch_jump(write_jump(done.chunk, OpJump(0)).chunk,
                               jump_if_false),
                    IF node.else_branch.some THEN node.else_branch.nodes
                    ELSE <<>>))

\* IfStatement, after the condition: write_jump(OpJumpIfFalse(0)),
\* write_op(OpPop), the then branch
if_then(node, done) ==
    IF done.result.k # "Ok" THEN done
    ELSE if_else(node, write_jump(done.chunk, OpJumpIfFalse(0)).offset,
                 compile_nodes(
                     write_op(write_jump(done.chunk, OpJumpIfFalse(0)).chunk,
                              OpPop),
                     node.then_branch))

\* FunctionDeclaration, once the body is compiled into a chunk of its own
function_constant(c, node, done) ==
    IF done.result.k # "Ok" THEN CR(c, done.result)
    ELSE LET added ==
                 add_constant(c, ConstantFunction(
                     VMFunction(node.name, write_op(done.chunk, OpReturn),
                                Len(node.parameters))))
         IN  CR(write_op(added.chunk, OpConstant(added.index)), Ok(Unit))

\* FunctionCall, once the arguments are compiled
compile_call(node, done) ==
    IF done.result.k # "Ok" THEN done
    ELSE LET added == add_constant(done.chunk, ConstantString(node.name))
         IN  CR(write_op(added.chunk,
                         OpCall(as_u8(Len(node.arguments)),
                                as_u8(added.index))),
                Ok(Unit))

\* NumberLiteral, and the Number(0.0) of a return without a value
number_constant(c, value) ==
    LET added == add_constant(c, ConstantNumber(value))
    IN  CR(write_op(added.chunk, OpConstant(added.index)), Ok(Unit))

\* ReturnStatement, once the value is on the stack
compile_return(done) ==
    IF done.result.k # "Ok" THEN done
    ELSE CR(write_op(done.chunk, OpReturn), Ok(Unit))

\* fn compile_node(&mut self, node: &ASTNode)
compile_node(c, node) ==
    CASE node.n = "BinaryExpression" ->
            compile_binary(node,
                then_compile(then_compile(CR(c, Ok(Unit)), node.left),
                             node.right))
      [] node.n = "UnaryExpression" ->
            compile_unary(node, then_compile(CR(c, Ok(Unit)), node.right))
      [] node.n = "VariableDeclaration" ->
            compile_declaration(node,
                then_compile(CR(c, Ok(Unit)), node.initializer))
      [] node.n = "VariableReference" -> define_global_of(c, node.name)
      [] node.n = "IfStatement" ->
            if_then(node, then_compile(CR(c, Ok(Unit)), node.condition))
      [] node.n = "FunctionDeclaration" ->
            function_constant(c, node, compile_nodes(ChunkNew, node.body))
      [] node.n = "NumberLiteral" -> number_constant(c, node.value)
      [] node.n = "FunctionCall" ->
            compile_call(node, compile_nodes(c, node.arguments))
      [] node.n = "ReturnStatement" ->
            compile_return(IF node.value = NoNode THEN number_constant(c, F64(0))
                           ELSE then_compile(CR(c, Ok(Unit)), node.value))
      [] OTHER -> CR(c, Err(<<"Unsupported AST node: ", node>>))

\* compile(), once the node is compiled: write_op(OpReturn), Ok(&self.chunk)
compile_finish(done) ==
    IF done.result.k # "Ok" THEN [compiler |-> [chunk |-> done.chunk],
                                  result |-> done.result]
    ELSE [compiler |-> [chunk |-> write_op(done.chunk, OpReturn)],
          result |-> Ok(write_op(done.chunk, OpReturn))]

\* pub fn compile(&mut self, node: &ASTNode)
compile(comp, node) == compile_finish(compile_node(comp.chunk, node))

\* ---- nodes handed to the compiler -----------------------------------------
\* 1   2   x   y
LeafNodes ==
    {NumberLiteral(F64(1)), NumberLiteral(F64(2)), VariableReference("x"),
     VariableReference("y")}
BinaryOperators == {"Plus", "Minus", "Star", "Slash", "Equals"}
ThenBranches ==
    {<<>>, <<NumberLiteral(F64(1))>>, <<VariableReference("x"), NumberLiteral(F64(2))>>}
ElseBranches == {NoNodes, SomeNodes(<<>>), SomeNodes(<<NumberLiteral(F64(2))>>)}
FunctionBodies ==
    {<<>>, <<ReturnStatement(NoNode)>>, <<ReturnStatement(NumberLiteral(F64(1)))>>}
Nodes ==
    LeafNodes
        \cup {BinaryExpression(l, op, r) :
                l \in LeafNodes, op \in BinaryOperators, r \in LeafNodes}
        \cup {UnaryExpression(op, r) : op \in {"Minus", "Plus"}, r \in LeafNodes}
        \cup {VariableDeclaration("x", e) : e \in LeafNodes}
        \cup {IfStatement(c, t, e) :
                c \in LeafNodes, t \in ThenBranches, e \in ElseBranches}
        \cup {FunctionDeclaration("f", params, body) :
                params \in {<<>>, <<"a">>}, body \in FunctionBodies}
        \cup {FunctionCall("f", args) :
                args \in {<<>>, <<NumberLiteral(F64(1))>>,
                          <<NumberLiteral(F64(1)), VariableReference("x")>>}}
        \cup {ReturnStatement(NoNode), ReturnStatement(NumberLiteral(F64(1))),
              StringLiteral("s")}

(***************************************************************************)
(* Bytecode VM (src/src/vm/vm.rs, src/src/vm/traits.rs).  An f64 is        *)
(* modelled as an exact fraction in lowest terms, which is what the f64    *)
(* arithmetic computes on the small values used here.  A Rust panic ends   *)
(* the run; it is modelled as the panic message next to the VM as it was   *)
(* when the panic was raised.                                              *)
(***************************************************************************)
\* what an op_* function leaves behind: the VM, and the panic message if
\* it panicked ("" if it returned)
VO(v) == [vm |-> v, panic |-> ""]
VP(v, message) == [vm |-> v, panic |-> message]

\* GlobalTable::new, get, set, define
GlobalTableNew == [globals |-> <<>>]
global_get(table, index) ==
    IF index \in DOMAIN table.globals
    THEN [some |-> TRUE, value |-> table.globals[index]]
    ELSE [some |-> FALSE]
global_set(table, index, value) ==
    [globals |-> [i \in DOMAIN table.globals \cup {index} |->
                     IF i = index THEN value ELSE table.globals[i]]]
global_define(table, index, value) ==
    IF index \in DOMAIN table.globals
    THEN [table |-> table, result |-> Err("Global variable already defined")]
    ELSE [table |-> global_set(table, index, value), result |-> Ok(Unit)]

\* CallFrame::new
CallFrameNew(callee, base_pointer) ==
    [function |-> callee, ip |-> 0, base_pointer |-> base_pointer]

\* VM::new
VMNew(c) ==
    [ip |-> 0, chunk |-> c, stack |-> <<>>, global_table |-> GlobalTableNew,
     frames |-> <<>>]

\* self.stack.pop() / self.stack.push(value)
top(stack) == stack[Len(stack)]
popped(stack) == SubSeq(stack, 1, Len(stack) - 1)

\* fn op_constant(&mut self, index: usize)
op_constant(v, index) ==
    IF index < Len(v.chunk.constants)
       /\ v.chunk.constants[index + 1].c = "Number"
    THEN VO([v EXCEPT !.stack = Append(@, v.chunk.constants[index + 1])])
    ELSE VO(v)

\* impl ArithmeticOps for Constant
constant_add(a, b) ==
    IF a.c = "Number" /\ b.c = "Number"
    THEN Ok(ConstantNumber(ratio(a.n.num * b.n.den + b.n.num * a.n.den,
                                 a.n.den * b.n.den)))
    ELSE Err("Addition is not supported for these Constant types")
constant_subtract(a, b) ==
    IF a.c = "Number" /\ b.c = "Number"
    THEN Ok(ConstantNumber(ratio(a.n.num * b.n.den - b.n.num * a.n.den,
                                 a.n.den * b.n.den)))
    ELSE Err("Subtraction is not supported for these Constant types")
constant_multiply(a, b) ==
    IF a.c = "Number" /\ b.c = "Number"
    THEN Ok(ConstantNumber(ratio(a.n.num * b.n.num, a.n.den * b.n.den)))
    ELSE Err("Multiplication is not supported for these Constant types")
constant_divide(a, b) ==
    IF a.c = "Number" /\ b.c = "Number"
    THEN IF b.n.num = 0 THEN Err("Division by zero")
         ELSE Ok(ConstantNumber(ratio(a.n.num * b.n.den, a.n.den * b.n.num)))
    ELSE Err("Division is not supported for these Constant types")

\* pop b, pop a, push the result of the arithmetic
op_arithmetic(v, computed) ==
    IF computed.k = "Err"
    THEN VP([v EXCEPT !.stack = popped(popped(@))], computed.err)
    ELSE VO([v EXCEPT !.stack = Append(popped(popped(@)), computed.value)])

\* the two `self.stack.pop().expect("Stack underflow")` of an arithmetic op
op_underflow(v) == VP([v EXCEPT !.stack = <<>>], "Stack underflow")

\* fn op_add(&mut self)
op_add(v) ==
    IF Len(v.stack) < 2 THEN op_underflow(v)
    ELSE op_arithmetic(v, constant_add(top(popped(v.stack)), top(v.stack)))

\* fn op_subtract(&mut self)
op_subtract(v) ==
    IF Len(v.stack) < 2 THEN op_underflow(v)
    ELSE op_arithmetic(v,
                       constant_subtract(top(popped(v.stack)), top(v.stack)))

\* fn op_multiply(&mut self)
op_multiply(v) ==
    IF Len(v.stack) < 2 THEN op_underflow(v)
    ELSE op_arithmetic(v,
                       constant_multiply(top(popped(v.stack)), top(v.stack)))

\* fn op_divide(&mut self)
op_divide(v) ==
    IF Len(v.stack) < 2 THEN op_underflow(v)
    ELSE op_arithmetic(v, constant_divide(top(popped(v.stack)), top(v.stack)))

\* fn op_return(&mut self)
op_return(v) ==
    IF v.stack = <<>> THEN VP(v, "Stack underflow")
    ELSE IF v.frames = <<>>
    THEN VP([v EXCEPT !.stack = popped(@)], "Call frame underflow")
    ELSE VO([v EXCEPT
               !.frames = popped(@),
               !.stack =
                   Append(SubSeq(popped(@), 1, top(v.frames).base_pointer),
                          top(v.stack))])

\* fn op_jump(&mut self, offset: usize)
op_jump(v, offset) == VO([v EXCEPT !.ip = offset])

\* impl PartialEq<f64> for Constant, against 0.0
equals_zero(constant) == constant.c = "Number" /\ constant.n.num = 0

\* fn op_jump_false(&mut self, offset: usize)
op_jump_false(v, offset) ==
    IF v.stack = <<>> THEN VP(v, "Stack underflow")
    ELSE IF equals_zero(top(v.stack))
    THEN VO([v EXCEPT !.stack = popped(@), !.ip = offset])
    ELSE VO([v EXCEPT !.stack = popped(@)])

\* fn op_define_global(&mut self, index: usize, value: Constant)
op_define_global(v, index, value) ==
    IF global_define(v.global_table, index, value).result.k = "Err"
    THEN VP(v, global_define(v.global_table, index, value).result.err)
    ELSE VO([v EXCEPT
               !.global_table =
                   global_define(v.global_table, index, value).table])

\* fn op_get_global(&mut self, index: usize)
op_get_global(v, index) ==
    IF ~global_get(v.global_table, index).some
    THEN VP(v, "Undefined global variable at index")
    ELSE VO([v EXCEPT
               !.stack = Append(@, global_get(v.global_table, index).value)])

\* fn op_set_global(&mut self, index: usize)
op_set_global(v, index) ==
    IF v.stack = <<>>
    THEN VP(v, "Stack underflow while setting global variable")
    ELSE VO([v EXCEPT
               !.stack = popped(@),
               !.global_table = global_set(@, index, top(v.stack))])

\* fn op_call(&mut self, argument_count: usize)
op_call(v, argument_count) ==
    IF v.stack = <<>> THEN VP(v, "Expected a function on the stack")
    ELSE IF top(v.stack).c # "Function"
    THEN VP([v EXCEPT !.stack = popped(@)],
            "Expected a function on the stack")
    ELSE IF top(v.stack).f.arity # argument_count
    THEN VP([v EXCEPT !.stack = popped(@)], "Expected arguments but got")
    ELSE IF Len(v.stack) - 1 < argument_count
    THEN VP([v EXCEPT !.stack = popped(@)],
            "attempt to subtract with overflow")
    ELSE VO([v EXCEPT
               !.stack = popped(@),
               !.frames =
                   Append(@, CallFrameNew(top(v.stack).f,
                                          Len(v.stack) - 1 - argument_count)),
               !.ip = 0])

\* one pass through the `while` of execute: the VM, the local `ip` and the
\* panic after it
Iteration(done, at) == [vm |-> done.vm, ip |-> at, panic |-> done.panic]

\* `self.chunk.code[ip]` past the end of the code
out_of_bounds(v, at) == Iteration(VP(v, "index out of bounds"), at)

\* the 0x09 arm: pop the value, op_define_global
define_popped(v, index) ==
    IF v.stack = <<>> THEN VP(v, "Stack underflow")
    ELSE op_define_global([v EXCEPT !.stack = popped(@)], index, top(v.stack))

\* the arms of the match that read `self.chunk.code[ip]`
execute_operand(v, opcode, at, byte) ==
    CASE opcode = 1 -> Iteration(op_constant(v, byte), at + 1)
      [] opcode = 7 -> Iteration(op_jump(v, byte), at)
      [] opcode = 8 -> Iteration(op_jump_false(v, byte), at + 1)
      [] opcode = 9 -> Iteration(define_popped(v, byte), at + 1)
      [] opcode = 10 -> Iteration(op_get_global(v, byte), at + 1)
      [] opcode = 11 -> Iteration(op_set_global(v, byte), at + 1)
      [] opcode = 12 -> Iteration(op_call(v, byte), at + 1)

\* the body of the `while` of execute, entered with the local `ip` = at
execute_iteration(v, at) ==
    LET opcode == v.chunk.code[at + 1]
    IN  CASE opcode = 2 -> Iteration(op_add(v), at + 1)
          [] opcode = 3 -> Iteration(op_subtract(v), at + 1)
          [] opcode = 4 -> Iteration(op_multiply(v), at + 1)
          [] opcode = 5 -> Iteration(op_divide(v), at + 1)
          [] opcode = 6 -> Iteration(op_return(v), at + 1)
          [] opcode \in {1, 7, 8, 9, 10, 11, 12} ->
                IF at + 1 < Len(v.chunk.code)
                THEN execute_operand(v, opcode, at + 1,
                                     v.chunk.code[at + 2])
                ELSE out_of_bounds(v, at + 1)
          [] OTHER -> Iteration(VP(v, "Unknown OpCode"), at + 1)

(***************************************************************************)
(* The state machine: one Evaluator, fed statement lists one after the     *)
(* other as run_with_evaluator does.                                       *)
(***************************************************************************)
NoResult == [k |-> "None"]

\* Evaluator::new
EvaluatorInit ==
    /\ environment = define(EnvironmentNew, "clock", NativeFunction)
    /\ output = <<>>
    /\ program = <<>>
    /\ result = NoResult
    /\ runs = 0

\* no source is being scanned
ScannerIdle ==
    /\ scanner = ScannerNew(<<>>)
    /\ scanned = NoResult
    /\ scans = 0

\* no token vector is being parsed
ParserIdle ==
    /\ parser = ParserNew(<<>>)
    /\ parsed = NoResult

\* no chunk is being written
ChunkIdle ==
    /\ written = ChunkNew
    /\ slot = NoResult

\* no node is being compiled
CompilerIdle ==
    /\ ast = NoNode
    /\ compiler = CompilerNew
    /\ compiled = NoResult

\* no chunk is being executed
VMIdle ==
    /\ vm = VMNew(ChunkNew)
    /\ ip = 0
    /\ panic = ""
    /\ status = "idle"

BytecodeIdle == ChunkIdle /\ CompilerIdle /\ VMIdle

Init == EvaluatorInit /\ ScannerIdle /\ ParserIdle /\ BytecodeIdle

\* evaluator.evaluate_statements(statements)
EvaluateStatements(statements) ==
    /\ runs < MaxRuns
    /\ LET done == evaluate_statements(environment, output, statements, Nil)
       IN  /\ environment' = done.environment
           /\ output' = done.output
           /\ result' = done.result
    /\ program' = statements
    /\ runs' = runs + 1
    /\ UNCHANGED <<scanner_vars, parser_vars, bytecode_vars>>

Next == \E statements \in Programs : EvaluateStatements(statements)

Spec == Init /\ [][Next]_vars

(***************************************************************************)
(* The scanner as a machine: Scanner::new(source), then scan_tokens calls  *)
(* on that one scanner.                                                    *)
(***************************************************************************)
SourceAlphabet == {"1", "a", "\"", "/", "*", "\n", "=", " ", ".", "@"}

Sources ==
    UNION {[1 .. n -> SourceAlphabet] : n \in 0 .. MaxSourceLen}

\* sources that open with a block comment:  / * and then any text over
\* the characters a comment is scanned for
CommentAlphabet == {"/", "*", "a", "\n"}
CommentSources ==
    {<<"/", "*">> \o rest :
        rest \in UNION {[1 .. n -> CommentAlphabet] : n \in 0 .. MaxCommentLen}}

\* Scanner::new(source)
ScannerInit ==
    /\ scanner \in {ScannerNew(source) : source \in Sources \cup CommentSources}
    /\ scanned = NoResult
    /\ scans = 0
    /\ EvaluatorInit
    /\ ParserIdle
    /\ BytecodeIdle

\* scanner.scan_tokens()
ScanTokens ==
    /\ scans < MaxScans
    /\ scanner' = scan_tokens(scanner).scanner
    /\ scanned' = scan_tokens(scanner).result
    /\ scans' = scans + 1
    /\ UNCHANGED <<evaluator_vars, parser_vars, bytecode_vars>>

ScannerNext == ScanTokens

ScannerSpec == ScannerInit /\ [][ScannerNext]_vars

(***************************************************************************)
(* The parser as a machine: Parser::new(tokens), then parse().  A parser   *)
(* is built for every token vector and parse() is called on it once        *)
(* (main.rs run / run_with_evaluator).                                     *)
(***************************************************************************)
\* Parser::new(tokens)
ParserInit ==
    /\ parser \in {ParserNew(tokens) : tokens \in TokenPrograms}
    /\ parsed = NoResult
    /\ EvaluatorInit
    /\ ScannerIdle
    /\ BytecodeIdle

\* parser.parse()
Parse ==
    /\ parsed = NoResult
    /\ parser' = parse(parser).parser
    /\ parsed' = parse(parser).result
    /\ UNCHANGED <<evaluator_vars, scanner_vars, bytecode_vars>>

ParserNext == Parse

ParserSpec == ParserInit /\ [][ParserNext]_vars

(***************************************************************************)
(* The chunk writer as a machine: Chunk::new(), then write_op,             *)
(* add_constant, write_jump and patch_jump on the slot the last write_jump *)
(* returned, as compile_node calls them.                                   *)
(***************************************************************************)
LoxIdle == EvaluatorInit /\ ScannerIdle /\ ParserIdle

WrittenOps == {OpAdd, OpPop, OpConstant(0), OpCall(1, 0)}
JumpOps == {OpJump(0), OpJumpIfFalse(0)}
PoolConstants == {ConstantNumber(F64(1)), ConstantString("x")}

\* Chunk::new()
ChunkInit ==
    /\ written = ChunkNew
    /\ slot = NoResult
    /\ LoxIdle
    /\ CompilerIdle
    /\ VMIdle

\* chunk.write_op(op)
WriteOp(op) ==
    /\ Len(write_op(written, op).code) <= MaxCode
    /\ written' = write_op(written, op)
    /\ UNCHANGED <<slot, lox_vars, compiler_vars, vm_vars>>

\* chunk.add_constant(constant)
AddConstant(constant) ==
    /\ Len(written.constants) < MaxConstants
    /\ written' = add_constant(written, constant).chunk
    /\ UNCHANGED <<slot, lox_vars, compiler_vars, vm_vars>>

\* let slot = chunk.write_jump(op)
WriteJump(op) ==
    /\ Len(write_op(written, op).code) <= MaxCode
    /\ written' = write_jump(written, op).chunk
    /\ slot' = Ok(write_jump(written, op).offset)
    /\ UNCHANGED <<lox_vars, compiler_vars, vm_vars>>

\* chunk.patch_jump(slot)
PatchJump ==
    /\ slot.k = "Ok"
    /\ written' = patch_jump(written, slot.value)
    /\ slot' = NoResult
    /\ UNCHANGED <<lox_vars, compiler_vars, vm_vars>>

ChunkNext ==
    \/ \E op \in WrittenOps : WriteOp(op)
    \/ \E constant \in PoolConstants : AddConstant(constant)
    \/ \E op \in JumpOps : WriteJump(op)
    \/ PatchJump

ChunkSpec == ChunkInit /\ [][ChunkNext]_vars

(***************************************************************************)
(* The compiler as a machine: Compiler::new(), then compile(&ast) once     *)
(* (vm_main.rs).                                                           *)
(***************************************************************************)
\* Compiler::new()
CompilerInit ==
    /\ ast \in Nodes
    /\ compiler = CompilerNew
    /\ compiled = NoResult
    /\ LoxIdle
    /\ ChunkIdle
    /\ VMIdle

\* compiler.compile(&ast)
Compile ==
    /\ compiled = NoResult
    /\ compiler' = compile(compiler, ast).compiler
    /\ compiled' = compile(compiler, ast).result
    /\ UNCHANGED <<ast, lox_vars, chunk_vars, vm_vars>>

CompilerNext == Compile

CompilerSpec == CompilerInit /\ [][CompilerNext]_vars

(***************************************************************************)
(* The VM as a machine: VM::new(chunk) and execute(), one action per pass  *)
(* through the `while` of execute.  The chunks are the ones the compiler   *)
(* produces and the ones the chunk writer produces from short instruction  *)
(* lists over a fixed constant pool.                                       *)
(***************************************************************************)
\* fun f() { return 1; } as the compiler stores it
FunctionF ==
    compile_node(ChunkNew,
                 FunctionDeclaration("f", <<>>,
                     <<ReturnStatement(NumberLiteral(F64(1)))>>))
        .chunk.constants[1]

\* 1   0   "x"   f
VMConstants ==
    <<ConstantNumber(F64(1)), ConstantNumber(F64(0)), ConstantString("x"),
      FunctionF>>

VMOps ==
    {OpConstant(i) : i \in 0 .. 3}
        \cup {OpAdd, OpSubtract, OpMultiply, OpDivide, OpNegate, OpReturn,
              OpPop, OpJump(0), OpJump(4), OpJumpIfFalse(4),
              OpDefineGlobal(2), OpGetGlobal(2), OpSetGlobal(2), OpCall(0, 2)}

RECURSIVE write_ops(_, _)
\* write_op for each instruction of the list
write_ops(c, ops) ==
    IF ops = <<>> THEN c ELSE write_ops(write_op(c, Head(ops)), Tail(ops))

WrittenChunks ==
    {write_ops([code |-> <<>>, constants |-> VMConstants], ops) :
        ops \in UNION {[1 .. n -> VMOps] : n \in 0 .. MaxOps}}

CompiledChunks ==
    {compile(CompilerNew, node).result.value :
        node \in {m \in Nodes : compile(CompilerNew, m).result.k = "Ok"}}

VMChunks == WrittenChunks \cup CompiledChunks

\* VM::new(chunk) and `let mut ip = 0` of execute
VMInit ==
    /\ vm \in {VMNew(c) : c \in VMChunks}
    /\ ip = 0
    /\ panic = ""
    /\ status = "executing"
    /\ LoxIdle
    /\ ChunkIdle
    /\ CompilerIdle

\* one pass through the `while` of execute
ExecuteIteration ==
    /\ status = "executing"
    /\ ip < Len(vm.chunk.code)
    /\ LET done == execute_iteration(vm, ip)
       IN  /\ vm' = done.vm
           /\ ip' = done.ip
           /\ panic' = done.panic
           /\ status' = IF done.panic = "" THEN "executing" ELSE "panicked"
    /\ UNCHANGED <<lox_vars, chunk_vars, compiler_vars>>

\* the `while` of execute ends
ExecuteReturn ==
    /\ status = "executing"
    /\ ip >= Len(vm.chunk.code)
    /\ status' = "returned"
    /\ UNCHANGED <<vm, ip, panic, lox_vars, chunk_vars, compiler_vars>>

VMNext == ExecuteIteration \/ ExecuteReturn

VMSpec == VMInit /\ [][VMNext]_vars

(***************************************************************************)
(* Properties.  A step of the machine is one evaluate_statements call, so  *)
(* the unprimed variables are the evaluator before the run and the primed  *)
(* ones the evaluator after it.                                            *)
(***************************************************************************)

\* C1: a name first declared with `var` inside a block is not bound after
\* the block exits normally: a run that is one block ending normally leaves
\* the set of resolvable names as it was at block entry, and a reference to
\* the name after the block is an undefined-variable error.
C1_BlockDeclarationStaysInside ==
    [][ /\ (program' \in BlockOnlyPrograms /\ result'.k = "Return")
            => visible(environment') = visible(environment)
        /\ (program' \in BlockThenUsePrograms
                /\ "x" \notin visible(environment))
            => /\ result' = EvalError("Undefined variable 'x'.")
               /\ output' = output ]_vars

\* C2: shadowing: `var a = outer; { var a = inner; print a; } print a;`
\* prints inner then outer, and `a` is still outer after the block.
C2_ShadowedBindingKeepsValue ==
    [][ \A pair \in ShadowPairs :
            program' = Shadow(pair[1], pair[2])
                => /\ result'.k = "Return"
                   /\ output' = output
                        \o <<to_string(pair[2]), to_string(pair[1])>>
                   /\ get(environment', "a") = pair[1] ]_vars

\* the lines `fun f() { FunBody(k, returns) } print f();` prints when the
\* body runs in source order up to its return
FunBodyLines(k, returns) ==
    SubSeq(Marks, 1, k) \o <<IF returns THEN "9" ELSE "Nil">>

\* C3: a call runs the statements of the body in source order until one of
\* them returns: k prints followed by `return 9` print the k marks and the
\* call yields 9 (nil when no statement returns), and factorial(5) is 120.
C3_BodyRunsUntilReturn ==
    [][ /\ \A k \in MarkCounts, returns \in BOOLEAN :
                program' = PrintCallOf(FunBody(k, returns))
                    => /\ result'.k = "Return"
                       /\ output' = output \o FunBodyLines(k, returns)
        /\ program' = Factorial
            => /\ result'.k = "Return"
               /\ output' = output \o <<"120">> ]_vars

\* C4: `return 1;` inside a nested block of a function body ends the
\* activation with 1: nothing after it is executed (no line is printed by a
\* later statement) and the call's result is 1.
C4_ReturnInBlockEndsActivation ==
    [][ program' \in NestedReturnPrograms
            => /\ result'.k = "Return"
               /\ output' = output \o <<"1">> ]_vars

\* C5: a `while` ends as soon as its body propagates a return: the call
\* around `while (true) { return 1; }` finishes with 1, and a loop whose
\* first pass returns 7 makes one pass only.
C5_WhileEndsOnReturn ==
    [][ /\ program' \in {WhileTrueReturn, WhileTrueReturnBare}
            => /\ result'.k = "Return"
               /\ output' = output \o <<"1">>
        /\ program' = WhileCountReturn
            => /\ result'.k = "Return"
               /\ output' = output \o <<"1", "7">> ]_vars

\* C6: a free variable of a function body is resolved in the environment of
\* the declaration, not of the call site: a name bound only in the caller's
\* scope is undefined inside the callee, and a name the caller shadows
\* resolves to the binding the declaration saw.
C6_FreeVariableUsesDeclarationScope ==
    [][ /\ (program' = CallerParameter /\ "n" \notin visible(environment))
            => /\ result' = EvalError("Undefined variable 'n'.")
               /\ output' = output
        /\ (program' = CallerBlockLocal /\ "x" \notin visible(environment))
            => /\ result' = EvalError("Undefined variable 'x'.")
               /\ output' = output
        /\ program' = CallerShadows
            => /\ result'.k = "Return"
               /\ output' = output \o <<"global">> ]_vars

\* C7: an assignment made inside a function body to a variable of an
\* enclosing environment is seen by the caller and by other functions after
\* the call returns.
C7_AssignmentInCalleeIsShared ==
    [][ /\ program' = AssignGlobalInFunction
            => /\ result'.k = "Return"
               /\ output' = output \o <<"2">>
               /\ get(environment', "x") = Number(2)
        /\ program' = AssignSeenByOtherFunction
            => /\ result'.k = "Return"
               /\ output' = output \o <<"2">> ]_vars

\* C8: assigning to a name that no environment of the chain binds is an
\* error at any nesting depth and creates no binding: the run reports the
\* error and the name is still unbound afterwards.
C8_AssignUnboundIsError ==
    [][ (program' \in AssignUnboundPrograms
            /\ "x" \notin visible(environment))
            => /\ result' = EvalError(assign_error("x"))
               /\ "x" \notin visible(environment') ]_vars

\* C9: when the expression of an expression statement raises an error,
\* evaluate_statements returns that error and no later statement runs.
C9_FirstErrorIsSurfaced ==
    [][ \A e \in FailingExpressions :
            LET failed == evaluate(environment, output, e).result
            IN  (program' = FailThenPrint(e) /\ failed.k = "Err")
                    => /\ result' = EvalError(failed.err)
                       /\ output' = output ]_vars

\* conditions tried on every reachable environment: the literals above and
\* every identifier, whatever the earlier runs bound it to
ConditionExpressions ==
    NonBooleanConditions \cup {Variable(name) : name \in Names}

ForAsWhile(stmt) ==
    StmtBlock(
        (IF stmt.initializer = None THEN <<>> ELSE <<stmt.initializer>>)
        \o <<StmtWhile(
                IF stmt.condition = None THEN True ELSE stmt.condition,
                StmtBlock(
                    <<stmt.body>>
                    \o (IF stmt.increment = None THEN <<>>
                        ELSE <<StmtExpression(stmt.increment)>>)))>>)

\* C11: executing a For node gives the same output lines, the same result or
\* error and the same bindings afterwards as executing the block
\* `{ initializer; while (condition-or-true) { body; increment; } }` from the
\* same evaluator state.
C11_ForIsBlockAndWhile ==
    [][\A s \in ForStatements :
          program' = <<s>> =>
              LET other == evaluate_statements(environment, output,
                                               <<ForAsWhile(s)>>, Nil)
              IN  /\ output' = other.output
                  /\ result' = other.result
                  /\ environment' = other.environment]_vars

\* C13: calling the native function `clock` of the root environment runs it
\* and yields a number, so `print clock();` ends in Return and prints one
\* line; only a callee that is neither Function nor NativeFunction gives
\* "Can only call functions.".
C13_NativeFunctionIsCalled ==
    [][/\ (program' = NativeCall /\ get(environment, "clock") = NativeFunction)
            => /\ result'.k = "Return"
               /\ Len(output') = Len(output) + 1
       /\ program' = NumberCall
            => result' = EvalError("Can only call functions.")]_vars

\* C18: `==` and `!=` never fail: `print l == r;` prints true exactly when l
\* and r are the same value of the same type and false otherwise, and
\* `print l != r;` prints the opposite.
C18_EqualityIsTotal ==
    [][\A l \in EqualityOperands, r \in EqualityOperands :
          /\ program' = PrintEquality(l, "EqualEqual", r)
                => /\ result'.k = "Return"
                   /\ output' = Append(output, to_string(Boolean(l = r)))
          /\ program' = PrintEquality(l, "BangEqual", r)
                => /\ result'.k = "Return"
                   /\ output' = Append(output, to_string(Boolean(l # r)))]_vars

\* C12: every token sequence `for ( A ; B ; C ) print i;`, each of A, B and C
\* present or left out, parses, and to the one For node that holds A, B, C
\* and the body
C12_ForParsesToForNode ==
    \A a \in ForInitializers, b \in ForConditions, c \in ForIncrements :
        (parser.tokens = ForTokens(a, b, c) /\ parsed # NoResult)
            => parsed = Ok(<<StmtFor(a.node, b.node, c.node, PrintVar("i"))>>)

\* C15: a return in the body of an outer function is accepted when a
\* nested function declaration stands before it
C15_ReturnAfterNestedFunction ==
    (parser.tokens \in NestedFunctionPrograms /\ parsed # NoResult)
        => parsed.k = "Ok"

\* C16: an expression nested deeper than MAX_RECURSION_DEPTH levels, here
\* through unary operators, is rejected with a parse error
C16_DeepNestingIsRejected ==
    (parser.tokens = DeepUnary /\ parsed # NoResult)
        => (parsed.k = "Err" /\ parsed.err.e = "ParseError")

\* C17: each primary form (a number, a string, true, false, nil, an
\* identifier, a parenthesised expression) parses to its expression node,
\* nil to the Literal that carries nil
C17_PrimaryFormsParse ==
    \A form \in PrimaryForms :
        (parser.tokens = PrintTokens(form.tokens) /\ parsed # NoResult)
            => parsed = Ok(<<StmtPrint(form.node)>>)

\* whether a return statement stands in stmt outside every function body
RECURSIVE ReturnOutside(_)
ReturnOutsideAny(stmts) == \E i \in 1 .. Len(stmts) : ReturnOutside(stmts[i])

ReturnOutside(stmt) ==
    CASE stmt.t = "Return" -> TRUE
      [] stmt.t = "Block" -> ReturnOutsideAny(stmt.statements)
      [] stmt.t = "While" -> ReturnOutside(stmt.body)
      [] stmt.t = "If" ->
            \/ ReturnOutside(stmt.then_branch)
            \/ (stmt.else_branch # None /\ ReturnOutside(stmt.else_branch))
      [] OTHER -> FALSE

\* C14: a return that is in no function body (bare, in a block, in an if or
\* in a while; first in the program or after a print or after complete
\* function declarations) makes parse fail with ReturnOutsideFunction, and
\* no statement list the parser returns has a return outside a function
C14_TopLevelReturnIsRejected ==
    /\ (parser.tokens \in TopLevelReturnPrograms \cup {ReturnAfterFunctions}
            /\ parsed # NoResult)
          => parsed = Err(ReturnOutsideFunction)
    /\ parsed.k = "Ok" => ~ReturnOutsideAny(parsed.value)

\* a top-level return after two complete function declarations was rejected
C14_Witness ==
    /\ parser.tokens = ReturnAfterFunctions
    /\ parsed = Err(ReturnOutsideFunction)

\* the level of a binary operator: equality 1, comparison 2, term 3, factor 4
OperatorLevel(op) ==
    CASE op \in {"EqualEqual", "BangEqual"} -> 1
      [] op \in {"Greater", "GreaterEqual", "Less", "LessEqual"} -> 2
      [] op \in {"Plus", "Minus"} -> 3
      [] op \in {"Star", "Slash", "Percent"} -> 4

\* the last operator of the lowest level among ops[lo .. hi - 1]: the one
\* applied last when equal levels group to the left
LastLowest(ops, lo, hi) ==
    CHOOSE k \in lo .. hi - 1 :
        /\ \A j \in lo .. hi - 1 : OperatorLevel(ops[k]) <= OperatorLevel(ops[j])
        /\ \A j \in k + 1 .. hi - 1 : OperatorLevel(ops[k]) < OperatorLevel(ops[j])

\* the tree of  lo ops[lo] lo+1 .. ops[hi - 1] hi  by precedence and left
\* associativity
RECURSIVE Grouped(_, _, _)
Grouped(ops, lo, hi) ==
    IF lo = hi THEN Num(lo)
    ELSE Binary(Grouped(ops, lo, LastLowest(ops, lo, hi)),
                ops[LastLowest(ops, lo, hi)],
                Grouped(ops, LastLowest(ops, lo, hi) + 1, hi))

\* the operators of the tokens  print 1 ops[1] 2 ops[2] 3 .. ; Eof
OperatorsOf(tokens) ==
    [i \in 1 .. (Len(tokens) - 4) \div 2 |-> tokens[2 * i + 1].token_type]

\* C19: `print 1 op 2 op 3 ..;` parses to the tree in which operators of
\* one level group to the left and a higher level binds tighter, and
\* `print 1 + 2 * 3 / (4 - 1);` parses and prints 3
C19_PrecedenceAndLeftFold ==
    /\ (parser.tokens \in OperatorPrograms /\ parsed # NoResult)
          => parsed = Ok(<<StmtPrint(Grouped(OperatorsOf(parser.tokens), 1,
                                             Len(OperatorsOf(parser.tokens)) + 1))>>)
    /\ (parser.tokens = Arithmetic /\ parsed # NoResult)
          => /\ parsed.k = "Ok"
             /\ evaluate_statements(environment, output, parsed.value, Nil).output
                    = <<"3">>

\* `1 - 2 - 3` was parsed, to ((1 - 2) - 3)
C19_Witness ==
    /\ parser.tokens = PrintTokens(OperatorTokens(<<"Minus", "Minus">>))
    /\ parsed = Ok(<<StmtPrint(Binary(Binary(Num(1), "Minus", Num(2)),
                                      "Minus", Num(3)))>>)

\* C20: the token sequence a successful scan_tokens call returns, the first
\* call on a scanner or a later one, holds exactly one Eof token, and that
\* token is its last element
C20_SingleEofLast ==
    scanned.k = "Ok"
        => /\ Len(scanned.value) >= 1
           /\ scanned.value[Len(scanned.value)].token_type = "Eof"
           /\ \A i \in 1 .. Len(scanned.value) - 1 :
                 scanned.value[i].token_type # "Eof"

\* sources with one `"` that opens a string literal (nothing before it but
\* characters that are tokens or blanks of their own) and no `"` after it
OpenStringSources ==
    {source \in Sources :
        \E i \in 1 .. Len(source) :
            /\ source[i] = "\""
            /\ \A j \in 1 .. Len(source) :
                  /\ j # i => source[j] # "\""
                  /\ j < i => source[j] \notin {"/", "@"}}

RECURSIVE CommentEnd(_, _, _)
CommentEnd(source, i, depth) ==
    IF depth = 0 THEN i - 1
    ELSE IF i > Len(source) THEN -1
    ELSE IF i < Len(source) /\ source[i] = "/" /\ source[i + 1] = "*"
    THEN CommentEnd(source, i + 2, depth + 1)
    ELSE IF i < Len(source) /\ source[i] = "*" /\ source[i + 1] = "/"
    THEN CommentEnd(source, i + 2, depth - 1)
    ELSE CommentEnd(source, i + 1, depth)

\* the number of line ends in source[1 .. to]
NewlinesIn(source, to) == Cardinality({i \in 1 .. to : source[i] = "\n"})

\* what scan_tokens returns for the text after the comment, with every
\* token moved down by the lines the comment spans
AfterComment(source, end) ==
    LET rest == scan_tokens(ScannerNew(SubSeq(source, end + 1, Len(source)))).result
    IN  IF rest.k # "Ok" THEN [k |-> rest.k, e |-> rest.err.e]
        ELSE Ok([i \in 1 .. Len(rest.value) |->
                    [rest.value[i] EXCEPT
                        !.line = @ + NewlinesIn(source, end)]])

\* C22: a block comment ends at the `*/` that closes the outermost `/*`:
\* the first scan_tokens call on `/* ..` returns the tokens of the text
\* after that `*/` and nothing from inside the comment, and fails when the
\* input ends with comments still open
C22_BlockCommentsNest ==
    (scanner.source \in CommentSources /\ scans = 1)
        => LET end == CommentEnd(scanner.source, 3, 1)
           IN  IF end = -1 THEN scanned.k = "Err"
               ELSE IF scanned.k = "Ok"
               THEN scanned = AfterComment(scanner.source, end)
               ELSE [k |-> scanned.k, e |-> scanned.err.e]
                        = AfterComment(scanner.source, end)

\* `/* /* */ */ a` without the blanks was scanned: the one token is the a
C22_Witness ==
    /\ scanner.source = <<"/", "*", "/", "*", "*", "/", "*", "/", "a">>
    /\ scans = 1
    /\ scanned = Ok(<<Token("Identifier", "a", NoLiteral, 1),
                      Token("Eof", "", NoLiteral, 1)>>)

\* C27: what a run bound or assigned before its failing statement is there
\* after the run: a variable defined at top level, a variable assigned at
\* top level, and an outer variable assigned inside the block whose later
\* statement fails
C27_BindingsBeforeErrorAreKept ==
    [][/\ program' = DefineThenFail
            => (result'.k = "Error" /\ get(environment', "a") = Number(1))
       /\ program' = AssignThenFail
            => (result'.k = "Error" /\ get(environment', "a") = Number(2))
       /\ program' = AssignInBlockThenFail
            => (result'.k = "Error" /\ get(environment', "a") = Number(2))]_vars

\* C28: when the condition of an `if` raises an error, the statement ends in
\* that error
C28_ConditionErrorIsSurfaced ==
    [][\A e \in FailingExpressions :
          LET failed == evaluate(environment, output, e).result
          IN  (program' = <<IfOn(e)>> /\ failed.k = "Err")
                  => result' = EvalError(failed.err)]_vars

\* what a call of the function bound to name yields, every parameter
\* given the number 1
CallOf(name) ==
    LET callee == get(environment, name)
    IN  evaluate_call(environment, output, callee,
                      [i \in 1 .. Len(callee.params) |-> Number(1)]).result

\* C30: no slot of the environment holds a Return-tagged value, no call of
\* a function that is bound yields one, and no line printed is the text of
\* one
C30_ReturnTagNeverLeaks ==
    /\ \A i \in 1 .. Len(environment), name \in Names :
          environment[i][name].t # "Return"
    /\ \A name \in Names :
          (get(environment, name).t = "Function" /\ CallOf(name).k = "Ok")
              => CallOf(name).value.t # "Return"
    /\ \A i \in 1 .. Len(output) : output[i] # to_string(Return(Nil))

\* `fun f() { return 9; print "after"; } print f();` has run and printed 9
C30_Witness ==
    /\ program = PrintCallOf(FunBody(0, TRUE))
    /\ result.k = "Return"
    /\ output[Len(output)] = "9"
    /\ CallOf("f") = Ok(Number(9))

\* C24: when patch_jump is applied to the slot write_jump returned, the two
\* bytes directly after the jump opcode, read as a little-endian 16-bit
\* value, equal the number of code bytes emitted after the jump instruction,
\* and every other byte of the chunk (and the constant pool) is unchanged.
C24_PatchWritesBothOperandBytes ==
    [][(slot.k = "Ok" /\ slot' = NoResult) =>
          /\ written'.code[slot.value] + 256 * written'.code[slot.value + 1]
                = Len(written.code) - slot.value - 1
          /\ Len(written'.code) = Len(written.code)
          /\ \A i \in 1 .. Len(written.code) :
                i \notin {slot.value, slot.value + 1}
                    => written'.code[i] = written.code[i]
          /\ written'.constants = written.constants]_vars

\* C25: compiling a VariableReference emits OP_GET_GLOBAL, byte 0x0C,
\* followed by the index of the interned name (and the OP_RETURN that
\* compile appends), never OP_DEFINE_GLOBAL.
C25_ReferenceEmitsGetGlobal ==
    (ast.n = "VariableReference" /\ compiled # NoResult) =>
        /\ compiled.k = "Ok"
        /\ compiled.value.constants = <<ConstantString(ast.name)>>
        /\ compiled.value.code = <<12, 0, 7>>

\* one instruction of every OpCode variant
OpCodeVariants ==
    {OpConstant(0), OpAdd, OpSubtract, OpMultiply, OpDivide, OpNegate,
     OpReturn, OpJump(0), OpJumpIfFalse(0), OpPop, OpDefineGlobal(0),
     OpGetGlobal(0), OpSetGlobal(0), OpCall(0, 0)}

\* the bytes write_op emits for one instruction
WrittenBytes(op) == write_op(ChunkNew, op).code

\* the number of bytes of the instruction write_op starts with this byte
WrittenLength(byte) ==
    IF \E op \in OpCodeVariants : WrittenBytes(op)[1] = byte
    THEN Len(WrittenBytes(
             CHOOSE op \in OpCodeVariants : WrittenBytes(op)[1] = byte))
    ELSE 1

RECURSIVE InstructionStarts(_, _)
\* the offsets, from `at` on, at which write_op put an opcode byte
InstructionStarts(code, at) ==
    IF at >= Len(code) THEN {}
    ELSE {at} \cup InstructionStarts(code, at + WrittenLength(code[at + 1]))

\* the local ip of execute stands on an instruction that write_op wrote
\* for one of the instructions of VMOps
AtWritten ==
    /\ status = "executing"
    /\ ip \in InstructionStarts(vm.chunk.code, 0)
    /\ \E op \in VMOps :
          /\ ip + Len(WrittenBytes(op)) <= Len(vm.chunk.code)
          /\ SubSeq(vm.chunk.code, ip + 1, ip + Len(WrittenBytes(op)))
                = WrittenBytes(op)

\* that instruction
WrittenAt ==
    CHOOSE op \in VMOps :
        /\ ip + Len(WrittenBytes(op)) <= Len(vm.chunk.code)
        /\ SubSeq(vm.chunk.code, ip + 1, ip + Len(WrittenBytes(op)))
              = WrittenBytes(op)

\* the effect of an instruction on the VM: the op_* function the VM has for
\* it; negate replaces the top of the stack by its negation and pop drops
\* the top of the stack
OpcodeEffect(op, v) ==
    CASE op.op = "OpConstant" -> op_constant(v, op.index)
      [] op.op = "OpAdd" -> op_add(v)
      [] op.op = "OpSubtract" -> op_subtract(v)
      [] op.op = "OpMultiply" -> op_multiply(v)
      [] op.op = "OpDivide" -> op_divide(v)
      [] op.op = "OpNegate" ->
            IF v.stack = <<>> THEN VP(v, "Stack underflow")
            ELSE op_arithmetic([v EXCEPT !.stack = Append(@, top(v.stack))],
                     constant_subtract(ConstantNumber(F64(0)), top(v.stack)))
      [] op.op = "OpReturn" -> op_return(v)
      [] op.op = "OpJump" -> op_jump(v, op.offset)
      [] op.op = "OpJumpIfFalse" -> op_jump_false(v, op.offset)
      [] op.op = "OpPop" ->
            IF v.stack = <<>> THEN VP(v, "Stack underflow")
            ELSE VO([v EXCEPT !.stack = popped(@)])
      [] op.op = "OpDefineGlobal" -> define_popped(v, op.index)
      [] op.op = "OpGetGlobal" -> op_get_global(v, op.index)
      [] op.op = "OpSetGlobal" -> op_set_global(v, op.index)
      [] op.op = "OpCall" -> op_call(v, op.arg_count)

\* C23: the VM decodes opcode bytes with the assignment write_op emits: a
\* pass of execute that starts on the bytes write_op wrote for an
\* instruction performs that instruction's effect on the VM (and panics
\* exactly when that effect panics).
C23_DecodeMatchesWriter ==
    [][AtWritten =>
          /\ vm' = OpcodeEffect(WrittenAt, vm).vm
          /\ panic' = OpcodeEffect(WrittenAt, vm).panic]_vars

\* the instruction at the local ip is a call that directly follows the
\* OP_CONSTANT of a function constant whose arity is the call's argc
CallOfLoadedFunction ==
    /\ AtWritten
    /\ WrittenAt.op = "OpCall"
    /\ ip >= 2
    /\ ip - 2 \in InstructionStarts(vm.chunk.code, 0)
    /\ vm.chunk.code[ip - 1] = 1
    /\ vm.chunk.code[ip] < Len(vm.chunk.constants)
    /\ vm.chunk.constants[vm.chunk.code[ip] + 1].c = "Function"
    /\ vm.chunk.constants[vm.chunk.code[ip] + 1].f.arity = WrittenAt.arg_count

\* C26: OP_CALL with argc on a loaded function value pushes a frame for
\* that function whose base pointer is the stack length minus argc, leaves
\* the function value off the stack, and the next instruction fetched is
\* the first instruction of the callee's chunk.
C26_CallPushesFrameAndEntersCallee ==
    [][CallOfLoadedFunction =>
          /\ panic' = ""
          /\ vm'.frames =
                Append(vm.frames,
                       CallFrameNew(
                           vm.chunk.constants[vm.chunk.code[ip] + 1].f,
                           Len(vm'.stack) - WrittenAt.arg_count))
          /\ vm'.chunk = vm.chunk.constants[vm.chunk.code[ip] + 1].f.chunk
          /\ ip' = 0]_vars

\* the instruction at the local ip is a jump that is taken
JumpTaken ==
    \/ WrittenAt.op = "OpJump"
    \/ /\ WrittenAt.op = "OpJumpIfFalse"
       /\ vm.stack # <<>>
       /\ equals_zero(top(vm.stack))

\* C29: a pass of execute that starts on an instruction and does not panic
\* leaves the instruction pointer used for the next fetch just past the
\* operand bytes of that instruction (opcode + 1 for constant and global
\* instructions, + 2 for jumps and call, + 0 otherwise), or on the jump
\* target when the instruction is a taken OP_JUMP or OP_JUMP_IF_FALSE; so
\* the next fetch is again the opcode byte of an instruction.
C29_PointerSkipsOperands ==
    [][(AtWritten /\ panic' = "") =>
          /\ ip' = IF JumpTaken THEN WrittenAt.offset
                   ELSE ip + Len(WrittenBytes(WrittenAt))
          /\ ip' \in InstructionStarts(vm.chunk.code, 0)
                        \cup {Len(vm.chunk.code)}]_vars

====
